---- MODULE Spec2Model ----
(***************************************************************************)
(* A model of gh-repolint: the two-tier configuration merge, the resilient *)
(* API client (cache and rate-limit backoff), the reference resolver and   *)
(* the check / fix plugins.                                                *)
(*                                                                         *)
(* Conventions.  A Go pointer or slice that may be nil is an option: the   *)
(* empty sequence << >> is nil and << v >> is a non-nil value v.  A Go     *)
(* string is a TLA+ string and "" is the unset string.  Durations are in   *)
(* whole seconds.                                                          *)
(***************************************************************************)
EXTENDS Integers, Sequences, FiniteSets, TLC

VARIABLES
    \* ---- config.MergeConfigs -------------------------------------------
    owner,      \* the org-scope document (option of Config)
    repo,       \* the repo-scope document (option of Config)
    merged,     \* the result of MergeConfigs (option of Config)
    mpc,        \* "start" before the merge, "done" after
    \* ---- github.Client.doWithRetry ------------------------------------
    method,     \* the HTTP method of the request in progress
    body,       \* its body: "nil", "json" or "unencodable"
    backoff,    \* the local backoff, seconds
    totalWait,  \* the local totalWait, seconds
    sleeps,     \* the durations passed to time.Sleep, in order
    outcomes,   \* what the transport answered, one entry per transport call
    rpc,        \* "idle", "loop" (inside the for loop) or "done" (returned)
    rret,       \* the error returned: nil or an error
    \* ---- github.Client and what it talks to ---------------------------
    cache,      \* Client.cache: cache key -> option of the cached value
    live,       \* the state of the repositories on the server
    fs,         \* the working directory: path -> option of a file
    op,         \* the operation called last, with its arguments
    ret,        \* what it returned: [val, err]
    reqs,       \* the requests it handed to doWithRetry, in order
    called,     \* the client methods it called, in order
    firstOk,    \* read operation -> the value its first success returned
    again,      \* whether the operation called last had succeeded before that call
    \* ---- checks.Runner and fix.Orchestrator ----------------------------
    policy,     \* the configuration in force (option of Config)
    found,      \* the issues the last run of the checks returned
    picked,     \* the issue handed to the orchestrator (option of Issue)
    results,    \* the Results of the fixes, in order
    fpc,        \* how far the session has come
    clean,      \* no fault has been planned in the session so far
    shared,     \* the build gives a range loop one variable for all its iterations
    skip,       \* the names of the checks the last run was told to skip
    ran,        \* the checks whose Run the last run called, in order: [name, err]
    given,      \* the issues handed to the orchestrator, in order
    invoked,    \* for each of them, the fixers whose Fix was called
    \* ---- config.Loader -------------------------------------------------
    loader,     \* the Loader: [owner, repo] (option: none before NewLoader)
    loaded,     \* the LoadedConfig a load returned (option)
    lpc,        \* "start" before a load, then how it ended
    \* ---- runLint -------------------------------------------------------
    npc,        \* how far the run of the command has come
    fixFlag,    \* the --fix flag
    configFlag, \* the --config flag: a path, empty when not given
    statuses,   \* what Runner.GetCheckStatuses returns after the run
    \* ---- RulesetsCheck.rulesetsMatch -----------------------------------
    cmpActual,   \* the ruleset of the repository (option)
    cmpExpected, \* the ruleset of the reference (option)
    cmpOut,      \* the verdicts of the comparison (option)
    cmpc         \* "start" before the comparison, "compared" after

mergeVars == << owner, repo, merged, mpc >>
retryVars == << method, body, backoff, totalWait, sleeps, outcomes, rpc, rret >>
clientVars == << cache, live, fs, op, ret, reqs, called, firstOk, again >>
fixVars == << policy, found, picked, results, fpc, clean, shared, skip, ran, given, invoked >>

loadVars == << loader, loaded, lpc >>

lintVars == << npc, fixFlag, configFlag, statuses >>

matchVars == << cmpActual, cmpExpected, cmpOut, cmpc >>

vars == << mergeVars, retryVars, clientVars, fixVars, loadVars, lintVars, matchVars >>

\* what an operation of one component leaves alone
exceptMerge == << lintVars, matchVars, retryVars, clientVars, fixVars, loadVars >>
exceptRetry == << lintVars, matchVars, mergeVars, clientVars, fixVars, loadVars >>
exceptClient == << lintVars, matchVars, mergeVars, retryVars, fixVars, loadVars >>

None == << >>
Some(v) == << v >>
IsNil(o) == o = << >>
Val(o) == o[1]

(***************************************************************************)
(* config: the policy documents and their merge (src/config/merger.go).    *)
(***************************************************************************)

\* mergeBoolPtr with the precedence inverted: the owner value wins.
mergeBoolPtrOwnerWins(o, r) == IF ~IsNil(o) THEN o ELSE r

mergeBoolPtr(o, r) == IF ~IsNil(r) THEN r ELSE o

mergeIntPtr(o, r) == IF ~IsNil(r) THEN r ELSE o

mergeString(o, r) == IF r # "" THEN r ELSE o

mergeMergeConfig(o, r) ==
    IF IsNil(o) /\ IsNil(r) THEN None
    ELSE IF IsNil(o) THEN r
    ELSE IF IsNil(r) THEN o
    ELSE Some([
        AllowMergeCommit    |-> mergeBoolPtr(Val(o).AllowMergeCommit, Val(r).AllowMergeCommit),
        AllowSquashMerge    |-> mergeBoolPtr(Val(o).AllowSquashMerge, Val(r).AllowSquashMerge),
        AllowRebaseMerge    |-> mergeBoolPtr(Val(o).AllowRebaseMerge, Val(r).AllowRebaseMerge),
        AllowAutoMerge      |-> mergeBoolPtr(Val(o).AllowAutoMerge, Val(r).AllowAutoMerge),
        DeleteBranchOnMerge |-> mergeBoolPtr(Val(o).DeleteBranchOnMerge, Val(r).DeleteBranchOnMerge),
        AlwaysSuggestUpdatingPullRequestBranches |->
            mergeBoolPtr(Val(o).AlwaysSuggestUpdatingPullRequestBranches,
                         Val(r).AlwaysSuggestUpdatingPullRequestBranches)])

mergeDependabotSettingsConfig(o, r) ==
    IF IsNil(o) /\ IsNil(r) THEN None
    ELSE IF IsNil(o) THEN r
    ELSE IF IsNil(r) THEN o
    ELSE Some([
        Alerts          |-> mergeBoolPtr(Val(o).Alerts, Val(r).Alerts),
        SecurityUpdates |-> mergeBoolPtr(Val(o).SecurityUpdates, Val(r).SecurityUpdates)])

\* The composite literal of mergeSettingsConfig names eight of the nine
\* fields of SettingsConfig; PullRequestCreationPolicy is not among them and
\* so keeps Go's zero value, the empty string.
mergeSettingsConfig(o, r) ==
    IF IsNil(o) /\ IsNil(r) THEN None
    ELSE IF IsNil(o) THEN r
    ELSE IF IsNil(r) THEN o
    ELSE Some([
        Issues                    |-> mergeBoolPtr(Val(o).Issues, Val(r).Issues),
        Wiki                      |-> mergeBoolPtr(Val(o).Wiki, Val(r).Wiki),
        Projects                  |-> mergeBoolPtr(Val(o).Projects, Val(r).Projects),
        Discussions               |-> mergeBoolPtr(Val(o).Discussions, Val(r).Discussions),
        AllowActionsToApprovePRs  |-> mergeBoolPtr(Val(o).AllowActionsToApprovePRs,
                                                   Val(r).AllowActionsToApprovePRs),
        PullRequestCreationPolicy |-> "",
        DefaultBranch             |-> mergeString(Val(o).DefaultBranch, Val(r).DefaultBranch),
        Merge                     |-> mergeMergeConfig(Val(o).Merge, Val(r).Merge),
        Dependabot                |-> mergeDependabotSettingsConfig(Val(o).Dependabot,
                                                                    Val(r).Dependabot)])

\* mergeRulesets that appends the repo array to the owner array.
mergeRulesetsAppend(o, r) ==
    IF IsNil(r) THEN o ELSE IF IsNil(o) THEN r ELSE Some(Val(o) \o Val(r))

mergeRulesets(o, r) == IF ~IsNil(r) THEN r ELSE o

mergeFiles(o, r) == IF ~IsNil(r) THEN r ELSE o

mergeActionsConfig(o, r) ==
    IF IsNil(o) /\ IsNil(r) THEN None
    ELSE IF IsNil(o) THEN r
    ELSE IF IsNil(r) THEN o
    ELSE Some([
        RequirePinnedVersions     |-> mergeBoolPtr(Val(o).RequirePinnedVersions,
                                                   Val(r).RequirePinnedVersions),
        RequireTimeout            |-> mergeBoolPtr(Val(o).RequireTimeout, Val(r).RequireTimeout),
        MaxTimeoutMinutes         |-> mergeIntPtr(Val(o).MaxTimeoutMinutes, Val(r).MaxTimeoutMinutes),
        RequireMinimalPermissions |-> mergeBoolPtr(Val(o).RequireMinimalPermissions,
                                                   Val(r).RequireMinimalPermissions),
        RequiredWorkflows         |-> IF ~IsNil(Val(r).RequiredWorkflows)
                                      THEN Val(r).RequiredWorkflows
                                      ELSE Val(o).RequiredWorkflows])

MergeConfigs(o, r) ==
    IF IsNil(o) /\ IsNil(r) THEN None
    ELSE IF IsNil(o) THEN r
    ELSE IF IsNil(r) THEN o
    ELSE Some([Checks |-> [
        Settings |-> mergeSettingsConfig(Val(o).Checks.Settings, Val(r).Checks.Settings),
        Actions  |-> mergeActionsConfig(Val(o).Checks.Actions, Val(r).Checks.Actions),
        Rulesets |-> mergeRulesets(Val(o).Checks.Rulesets, Val(r).Checks.Rulesets),
        Files    |-> mergeFiles(Val(o).Checks.Files, Val(r).Checks.Files)]])

(***************************************************************************)
(* The documents the merge is exercised on.  A document is filled from a   *)
(* pattern: leaf number i takes the value at position seed + i * stride of *)
(* its value list, so that neighbouring leaves differ when stride > 0 and  *)
(* every leaf meets every pair of (owner, repo) values as the two seeds    *)
(* range over the list.  Which optional sub-objects are present is chosen  *)
(* freely, and so is each of the three arrays.                             *)
(***************************************************************************)
MaxStride == 1

BoolPtrs == << None, Some(TRUE), Some(FALSE) >>
IntPtrs == << None, Some(10), Some(30) >>
Strings == << "", "a", "b" >>
Pick(list, seed, stride, i) == list[((seed + i * stride) % Len(list)) + 1]

RulesetA == [Name |-> "main", Reference |-> "acme/acme/ruleset.json"]
RulesetB == [Name |-> "tags", Reference |-> "rules/tags.json"]
FileA == [Name |-> "ci.yml", Reference |-> "acme/acme/ci.yml"]
FileB == [Name |-> "dependabot.yml", Reference |-> "templates/dependabot.yml"]
WorkflowA == [Path |-> "ci.yml", Reference |-> "acme/acme/ci.yml"]
WorkflowB == [Path |-> "release.yml", Reference |-> ""]

\* nil, empty but non-nil, one element, two elements
Arrays(a, b) == { None, Some(<< >>), Some(<< a >>), Some(<< b, a >>) }

MergeFill(seed, stride) == [
    AllowMergeCommit    |-> Pick(BoolPtrs, seed, stride, 0),
    AllowSquashMerge    |-> Pick(BoolPtrs, seed, stride, 1),
    AllowRebaseMerge    |-> Pick(BoolPtrs, seed, stride, 2),
    AllowAutoMerge      |-> Pick(BoolPtrs, seed, stride, 3),
    DeleteBranchOnMerge |-> Pick(BoolPtrs, seed, stride, 4),
    AlwaysSuggestUpdatingPullRequestBranches |-> Pick(BoolPtrs, seed, stride, 5)]

DependabotFill(seed, stride) == [
    Alerts          |-> Pick(BoolPtrs, seed, stride, 1),
    SecurityUpdates |-> Pick(BoolPtrs, seed, stride, 2)]

SettingsFill(seed, stride, hasMerge, hasDependabot) == [
    Issues                    |-> Pick(BoolPtrs, seed, stride, 0),
    Wiki                      |-> Pick(BoolPtrs, seed, stride, 1),
    Projects                  |-> Pick(BoolPtrs, seed, stride, 2),
    Discussions               |-> Pick(BoolPtrs, seed, stride, 3),
    AllowActionsToApprovePRs  |-> Pick(BoolPtrs, seed, stride, 4),
    PullRequestCreationPolicy |-> Pick(Strings, seed, stride, 5),
    DefaultBranch             |-> Pick(Strings, seed, stride, 6),
    Merge      |-> IF hasMerge THEN Some(MergeFill(seed, stride)) ELSE None,
    Dependabot |-> IF hasDependabot THEN Some(DependabotFill(seed, stride)) ELSE None]

ActionsFill(seed, stride, workflows) == [
    RequirePinnedVersions     |-> Pick(BoolPtrs, seed, stride, 0),
    RequireTimeout            |-> Pick(BoolPtrs, seed, stride, 1),
    MaxTimeoutMinutes         |-> Pick(IntPtrs, seed, stride, 2),
    RequireMinimalPermissions |-> Pick(BoolPtrs, seed, stride, 3),
    RequiredWorkflows         |-> workflows]

Document(settings, actions, rulesets, files) ==
    [Checks |-> [Settings |-> settings, Actions |-> actions,
                 Rulesets |-> rulesets, Files |-> files]]

\* Documents that vary the scalar leaves and the presence of sub-objects.
ScalarDocuments ==
    { None } \cup
    { Some(Document(
        IF hasSettings THEN Some(SettingsFill(seed, stride, hasMerge, hasDependabot)) ELSE None,
        IF hasActions THEN Some(ActionsFill(seed, stride, Some(<< WorkflowA >>))) ELSE None,
        Some(<< RulesetA >>), None)) :
      seed \in 0..2, stride \in 0..MaxStride,
      hasSettings \in BOOLEAN, hasMerge \in BOOLEAN,
      hasDependabot \in BOOLEAN, hasActions \in BOOLEAN }

\* Documents that vary the three arrays.
ArrayDocuments ==
    { Some(Document(
        None,
        IF hasActions THEN Some(ActionsFill(1, 1, workflows)) ELSE None,
        rulesets, files)) :
      hasActions \in BOOLEAN,
      workflows \in Arrays(WorkflowA, WorkflowB),
      rulesets \in Arrays(RulesetA, RulesetB),
      files \in Arrays(FileA, FileB) }

Documents == ScalarDocuments \cup ArrayDocuments

MergeStart ==
    /\ owner \in Documents
    /\ repo \in Documents
    /\ merged = None
    /\ mpc = "start"

\* Loader.Load: result.Config = MergeConfigs(result.OwnerConfig, result.RepoConfig)
DoMergeConfigs ==
    /\ mpc = "start"
    /\ merged' = MergeConfigs(owner, repo)
    /\ mpc' = "done"
    /\ UNCHANGED << owner, repo >>
    /\ UNCHANGED exceptMerge


(***************************************************************************)
(* Error values.  An error carries the text its Error() method renders, as *)
(* a sequence of tokens: a word, a blank, a punctuation mark or one        *)
(* decimal digit, so that a substring test on the text is a test for a     *)
(* contiguous run of tokens.  cause is the error wrapped with %w, if any.  *)
(***************************************************************************)
RECURSIVE Digits(_)
Digits(n) ==
    LET d == << "0", "1", "2", "3", "4", "5", "6", "7", "8", "9" >>
    IN IF n < 10 THEN << d[n + 1] >> ELSE Digits(n \div 10) \o << d[(n % 10) + 1] >>

\* strings.Contains
Contains(str, sub) ==
    \E i \in 1..(Len(str) - Len(sub) + 1) : SubSeq(str, i, i + Len(sub) - 1) = sub

\* time.Duration.String for a whole number of seconds below one hour
DurationString(d) ==
    IF d >= 60 THEN Digits(d \div 60) \o << "m" >> \o Digits(d % 60) \o << "s" >>
    ELSE Digits(d) \o << "s" >>

\* HTTPError.Error: "HTTP %d: %s"
HTTPError(status, message) ==
    [kind |-> "http", status |-> status, waited |-> 0, cause |-> None,
     text |-> << "HTTP", " " >> \o Digits(status) \o << ":", " " >> \o message]

PlainError(kind, message) ==
    [kind |-> kind, status |-> 0, waited |-> 0, cause |-> None, text |-> message]

\* fmt.Errorf("rate limit exceeded, waited %v: %w", totalWait, err)
RateLimitExceeded(waited, err) ==
    [kind |-> "rate limit exceeded", status |-> 0, waited |-> waited, cause |-> Some(err),
     text |-> << "rate", " ", "limit", " ", "exceeded,", " ", "waited", " " >>
              \o DurationString(waited) \o << ":", " " >> \o err.text]

\* fmt.Errorf("<prefix>: %w", err)
Wrap(kind, prefix, err) ==
    [kind |-> kind, status |-> 0, waited |-> 0, cause |-> Some(err),
     text |-> prefix \o << ":", " " >> \o err.text]

\* What the transport can answer with, besides success.
Forbidden == HTTPError(403, << "Forbidden" >>)
TooManyRequests == HTTPError(429, << "Too", " ", "Many", " ", "Requests" >>)
PrimaryRateLimit == HTTPError(429, << "API", " ", "rate", " ", "limit", " ", "exceeded" >>)
SecondaryRateLimit ==
    HTTPError(403, << "You", " ", "have", " ", "exceeded", " ", "a", " ",
                      "secondary", " ", "rate", " ", "limit" >>)
NotFound == HTTPError(404, << "Not", " ", "Found" >>)
Unprocessable == HTTPError(422, << "Validation", " ", "Failed" >>)
ServerError == HTTPError(500, << "Internal", " ", "Server", " ", "Error" >>)
NetworkError == PlainError("network", << "connection", " ", "refused" >>)

TransportErrors ==
    { Forbidden, TooManyRequests, PrimaryRateLimit, SecondaryRateLimit,
      NotFound, Unprocessable, ServerError, NetworkError }

(***************************************************************************)
(* github.Client.doWithRetry (src/github/files.go).                        *)
(***************************************************************************)
initialBackoff == 1
maxBackoffDuration == 60

isRateLimitError(err) ==
    \/ Contains(err.text, << "rate", " ", "limit" >>)
    \/ Contains(err.text, << "4", "0", "3" >>)
    \/ Contains(err.text, << "secondary", " ", "rate", " ", "limit" >>)

\* every error is taken for a rate-limit error
RetriesEveryError(err) == TRUE

\* line 435: if !isRateLimitError(err) { return err }
ShouldRetry(err) == isRateLimitError(err)

\* the budget test with > in place of >=
BudgetSpentStrict(total) == total > maxBackoffDuration

\* line 439: if totalWait >= maxBackoffDuration
BudgetSpent(total) == total >= maxBackoffDuration

\* the doubling without the truncation to the remaining budget
NextBackoffUncapped(b, total) == 2 * b

\* the backoff kept constant
NextBackoffConstant(b, total) == b

\* lines 446-449, total being totalWait after the sleep was added
NextBackoff(b, total) ==
    IF 2 * b > maxBackoffDuration - total THEN maxBackoffDuration - total ELSE 2 * b

Methods == { "GET", "POST", "PATCH", "PUT", "DELETE" }
HasBody(m) == m \in { "POST", "PATCH", "PUT" }

RetryIdle ==
    /\ method = "" /\ body = "nil" /\ backoff = 0 /\ totalWait = 0
    /\ sleeps = << >> /\ outcomes = << >> /\ rpc = "idle" /\ rret = None

\* entry: backoff := initialBackoff; totalWait := 0
RetryEnter ==
    /\ rpc \in { "idle", "done" }
    /\ \E m \in Methods \cup { "HEAD" }, b \in { "nil", "json", "unencodable" } :
        /\ method' = m
        /\ body' = IF HasBody(m) THEN b ELSE "nil"
    /\ backoff' = initialBackoff
    /\ totalWait' = 0
    /\ sleeps' = << >>
    /\ outcomes' = << >>
    /\ rpc' = "loop"
    /\ rret' = None
    /\ UNCHANGED exceptRetry

RetryReturn(err) ==
    /\ rpc' = "done"
    /\ rret' = err
    /\ UNCHANGED << method, body, backoff, totalWait, sleeps >>
    /\ UNCHANGED exceptRetry

\* default: return fmt.Errorf("unsupported method: %s", method)
RetryUnsupportedMethod ==
    /\ rpc = "loop"
    /\ method \notin Methods
    /\ RetryReturn(Some(PlainError("unsupported method", << "unsupported", " ", "method" >>)))
    /\ UNCHANGED outcomes

\* encodeBody fails: return encErr
RetryEncodeError ==
    /\ rpc = "loop"
    /\ HasBody(method) /\ body = "unencodable"
    /\ RetryReturn(Some(PlainError("encode", << "failed", " ", "to", " ", "encode" >>)))
    /\ UNCHANGED outcomes

Sendable == method \in Methods /\ (HasBody(method) => body # "unencodable")

\* the transport answers nil: return nil
RetrySuccess ==
    /\ rpc = "loop"
    /\ Sendable
    /\ outcomes' = Append(outcomes, None)
    /\ RetryReturn(None)

\* the transport answers an error that is not retried: return err
RetryFail ==
    /\ rpc = "loop"
    /\ Sendable
    /\ \E err \in TransportErrors :
        /\ ~ShouldRetry(err)
        /\ outcomes' = Append(outcomes, Some(err))
        /\ RetryReturn(Some(err))

\* the transport answers a retried error and the budget is spent
RetryGiveUp ==
    /\ rpc = "loop"
    /\ Sendable
    /\ \E err \in TransportErrors :
        /\ ShouldRetry(err)
        /\ BudgetSpent(totalWait)
        /\ outcomes' = Append(outcomes, Some(err))
        /\ RetryReturn(Some(RateLimitExceeded(totalWait, err)))

\* the transport answers a retried error: sleep, then go round the loop
RetrySleep ==
    /\ rpc = "loop"
    /\ Sendable
    /\ \E err \in TransportErrors :
        /\ ShouldRetry(err)
        /\ ~BudgetSpent(totalWait)
        /\ outcomes' = Append(outcomes, Some(err))
    /\ sleeps' = Append(sleeps, backoff)
    /\ totalWait' = totalWait + backoff
    /\ backoff' = NextBackoff(backoff, totalWait + backoff)
    /\ UNCHANGED << method, body, rpc, rret >>
    /\ UNCHANGED exceptRetry

RetryNext ==
    \/ RetryEnter
    \/ RetryUnsupportedMethod
    \/ RetryEncodeError
    \/ RetrySuccess
    \/ RetryFail
    \/ RetryGiveUp
    \/ RetrySleep

(***************************************************************************)
(* Strings the program takes apart.  A path or a reference is a sequence   *)
(* of tokens in which "/" is a token of its own, so that splitting,        *)
(* joining and formatting are computed and not assumed.                    *)
(***************************************************************************)
ClientOwner == "acme"
ClientRepo == "widget"

RECURSIVE SplitN(_, _)
\* strings.SplitN(str, "/", n) for n >= 1
SplitN(str, n) ==
    LET cuts == { i \in 1..Len(str) : str[i] = "/" }
    IN IF n = 1 \/ cuts = {} THEN << str >>
       ELSE LET i == CHOOSE c \in cuts : \A d \in cuts : c <= d
            IN << SubSeq(str, 1, i - 1) >> \o SplitN(SubSeq(str, i + 1, Len(str)), n - 1)

\* the number of "/" separators in a string
Separators(str) == Cardinality({ i \in 1..Len(str) : str[i] = "/" })

\* fmt.Sprintf("repos/%s/%s", c.owner, c.repo) and the paths under it
RepoPath == << "repos", "/", ClientOwner, "/", ClientRepo >>
WorkflowPermissionsPath == RepoPath \o << "/", "actions", "/", "permissions", "/", "workflow" >>
RulesetsPath == RepoPath \o << "/", "rulesets" >>
RulesetPath(id) == RulesetsPath \o << "/" >> \o Digits(id)
VulnerabilityAlertsPath == RepoPath \o << "/", "vulnerability-alerts" >>
AutomatedSecurityFixesPath == RepoPath \o << "/", "automated-security-fixes" >>
ContentsPath(o, r, p) == << "repos", "/" >> \o o \o << "/" >> \o r \o << "/", "contents", "/" >> \o p

\* the cache keys, as fmt.Sprintf renders them
RepoKey == << "repo:", ClientOwner, "/", ClientRepo >>
RulesetsKey == << "rulesets:", ClientOwner, "/", ClientRepo >>
RulesetKey(id) == << "ruleset:", ClientOwner, "/", ClientRepo, "/" >> \o Digits(id)
FileKey(p) == << "file:", ClientOwner, "/", ClientRepo, "/" >> \o p
RemoteFileKey(o, r, p) == << "remote-file:" >> \o o \o << "/" >> \o r \o << "/" >> \o p

(***************************************************************************)
(* File contents.  The bytes of a file are a sequence of tokens; json is   *)
(* what json.Unmarshal into a Ruleset makes of them: nil when they do not  *)
(* parse.                                                                  *)
(***************************************************************************)
Bytes(tokens, json) == [tokens |-> tokens, json |-> json]

RECURSIVE ReplaceAll(_, _, _)
\* strings.ReplaceAll for a one-token pattern
ReplaceAll(str, old, new) ==
    IF str = << >> THEN << >>
    ELSE << IF str[1] = old THEN new ELSE str[1] >> \o ReplaceAll(Tail(str), old, new)

HydrateTemplate(content) ==
    LET a == ReplaceAll(content.tokens, "{{ .owner }}", ClientOwner)
        b == ReplaceAll(a, "{{.owner}}", ClientOwner)
        c == ReplaceAll(b, "{{ .repo }}", ClientRepo)
        d == ReplaceAll(c, "{{.repo}}", ClientRepo)
    IN [content EXCEPT !.tokens = d]

(***************************************************************************)
(* The working directory: path -> option of [mode, content].  A file of    *)
(* mode "none" exists and can be neither read nor written.                 *)
(***************************************************************************)
ErrNotExist == PlainError("ENOENT", << "no", " ", "such", " ", "file", " ", "or", " ", "directory" >>)
ErrPermission == PlainError("EACCES", << "permission", " ", "denied" >>)

\* os.ReadFile: [val, err]
ReadFile(files, path) ==
    IF path \notin DOMAIN files \/ IsNil(files[path])
    THEN [val |-> None, err |-> Some(ErrNotExist)]
    ELSE IF Val(files[path]).mode = "none"
    THEN [val |-> None, err |-> Some(ErrPermission)]
    ELSE [val |-> Some(Val(files[path]).content), err |-> None]

\* os.IsNotExist for every error: the fallback taken on any read failure
AnyErrorIsNotExist(err) == TRUE

\* os.IsNotExist
IsNotExist(err) == err.kind = "ENOENT"

\* Client.FileExists: os.Stat succeeds
FileExists(files, path) == path \in DOMAIN files /\ ~IsNil(files[path])

\* Client.GetLocalFileContent
GetLocalFileContent(files, path) == ReadFile(files, path)

\* Client.WriteFile: [fs, err]
WriteFile(files, path, content) ==
    IF FileExists(files, path) /\ Val(files[path]).mode = "none"
    THEN [fs |-> files, err |-> Some(ErrPermission)]
    ELSE [fs |-> [files EXCEPT ![path] = Some([mode |-> "rw", content |-> content])],
          err |-> None]

(***************************************************************************)
(* The server.  live is [repo, perms, alerts, secfix, rulesets, files]:    *)
(* the repository's settings, its rulesets in the order of their ids       *)
(* (1, 2, ...) and the files of the repositories a reference can name.     *)
(***************************************************************************)
MaxRulesets == 2

Request(m, path, rb) == [method |-> m, path |-> path, body |-> rb]

Reply(lv, payload) == [live |-> lv, err |-> None, payload |-> payload]
Refuse(lv, e) == [live |-> lv, err |-> Some(e), payload |-> None]

\* PATCH repos/{owner}/{repo}: the fields present in the body are applied
PatchRepository(r, b) ==
    LET pick(new, old) == IF IsNil(new) THEN old ELSE Val(new)
    IN [r EXCEPT
          !.HasIssues = pick(b.HasIssues, @),
          !.HasWiki = pick(b.HasWiki, @),
          !.HasProjects = pick(b.HasProjects, @),
          !.HasDiscussions = pick(b.HasDiscussions, @),
          !.PullRequestCreationPolicy = pick(b.PullRequestCreationPolicy, @),
          !.AllowMergeCommit = pick(b.AllowMergeCommit, @),
          !.AllowSquashMerge = pick(b.AllowSquashMerge, @),
          !.AllowRebaseMerge = pick(b.AllowRebaseMerge, @),
          !.AllowAutoMerge = pick(b.AllowAutoMerge, @),
          !.DeleteBranchOnMerge = pick(b.DeleteBranchOnMerge, @),
          !.AllowUpdateBranch = pick(b.AllowUpdateBranch, @)]

\* json.Marshal of a RulesetCreateRequest: conditions and bypass_actors are
\* omitempty (a nil pointer, a nil or empty slice), rules is null when nil
EncodeRulesetRequest(q) ==
    [name |-> q.Name, target |-> q.Target, enforcement |-> q.Enforcement,
     conditions |-> q.Conditions,
     rules |-> q.Rules,
     bypass_actors |-> IF IsNil(q.BypassActors) \/ Val(q.BypassActors) = << >>
                       THEN None ELSE q.BypassActors]

\* POST repos/{owner}/{repo}/rulesets: the stored ruleset
StoreRuleset(id, w) ==
    [ID |-> id, Name |-> w.name, Target |-> w.target, Enforcement |-> w.enforcement,
     Conditions |-> w.conditions,
     Rules |-> IF IsNil(w.rules) THEN Some(<< >>) ELSE w.rules,
     BypassActors |-> IF IsNil(w.bypass_actors) THEN Some(<< >>) ELSE w.bypass_actors]

\* PUT repos/{owner}/{repo}/rulesets/{id}: a field absent from the body is kept
RestoreRuleset(old, w) ==
    [ID |-> old.ID, Name |-> w.name, Target |-> w.target, Enforcement |-> w.enforcement,
     Conditions |-> IF IsNil(w.conditions) THEN old.Conditions ELSE w.conditions,
     Rules |-> IF IsNil(w.rules) THEN old.Rules ELSE w.rules,
     BypassActors |-> IF IsNil(w.bypass_actors) THEN old.BypassActors ELSE w.bypass_actors]

\* GET repos/{owner}/{repo}/rulesets lists the rulesets without their
\* conditions, rules and bypass actors
RulesetSummary(r) == [r EXCEPT !.Conditions = None, !.Rules = None, !.BypassActors = None]

RulesetSummaries(list) == [i \in 1..Len(list) |-> RulesetSummary(list[i])]

\* the id a path repos/{owner}/{repo}/rulesets/{id} names, 0 when it is no such path
RulesetIdOf(path) ==
    LET ids == { id \in 1..(MaxRulesets + 1) : path = RulesetPath(id) }
    IN IF ids = {} THEN 0 ELSE CHOOSE id \in ids : TRUE

\* the file a path repos/{owner}/{repo}/contents/{path} names
FilesAt(lv, path) ==
    { f \in DOMAIN lv.files : path = << "repos", "/" >> \o f[1] \o << "/" >> \o f[2]
                                       \o << "/", "contents", "/" >> \o f[3] }

\* What the server does with one request: [live, err, payload].
Serve(lv, m, path, rb) ==
    LET id == RulesetIdOf(path)
        at == FilesAt(lv, path)
    IN CASE path = RepoPath /\ m = "GET" -> Reply(lv, Some(lv.repo))
         [] path = RepoPath /\ m = "PATCH" ->
              Reply([lv EXCEPT !.repo = PatchRepository(@, Val(rb))], None)
         [] path = WorkflowPermissionsPath /\ m = "GET" -> Reply(lv, Some(lv.perms))
         [] path = WorkflowPermissionsPath /\ m = "PUT" ->
              Reply([lv EXCEPT !.perms.CanApprovePullRequestReviews =
                                   Val(rb).can_approve_pull_request_reviews], None)
         [] path = RulesetsPath /\ m = "GET" -> Reply(lv, Some(RulesetSummaries(lv.rulesets)))
         [] path = RulesetsPath /\ m = "POST" ->
              LET made == StoreRuleset(Len(lv.rulesets) + 1, Val(rb))
              IN Reply([lv EXCEPT !.rulesets = Append(@, made)], Some(made))
         [] id \in 1..Len(lv.rulesets) /\ m = "GET" -> Reply(lv, Some(lv.rulesets[id]))
         [] id \in 1..Len(lv.rulesets) /\ m = "PUT" ->
              Reply([lv EXCEPT !.rulesets[id] = RestoreRuleset(@, Val(rb))], None)
         [] path = VulnerabilityAlertsPath /\ m = "GET" ->
              IF lv.alerts THEN Reply(lv, None) ELSE Refuse(lv, NotFound)
         [] path = VulnerabilityAlertsPath /\ m = "PUT" -> Reply([lv EXCEPT !.alerts = TRUE], None)
         [] path = VulnerabilityAlertsPath /\ m = "DELETE" ->
              Reply([lv EXCEPT !.alerts = FALSE], None)
         [] path = AutomatedSecurityFixesPath /\ m = "GET" -> Reply(lv, Some(lv.secfix))
         [] path = AutomatedSecurityFixesPath /\ m = "PUT" ->
              Reply([lv EXCEPT !.secfix.Enabled = TRUE], None)
         [] path = AutomatedSecurityFixesPath /\ m = "DELETE" ->
              Reply([lv EXCEPT !.secfix.Enabled = FALSE], None)
         [] at # {} /\ m = "GET" ->
              LET f == CHOOSE x \in at : TRUE
              IN IF IsNil(lv.files[f]) THEN Refuse(lv, NotFound) ELSE Reply(lv, lv.files[f])
         [] OTHER -> Refuse(lv, NotFound)

\* The errors doWithRetry returns when the transport keeps failing: an error
\* that is no rate limit error at once, a rate limit error after the budget.
Faults == { ServerError, RateLimitExceeded(maxBackoffDuration, SecondaryRateLimit) }

\* One call of doWithRetry from its caller's side: [live, err, payload].
\* fault is nil when the transport reaches the server, an error of Faults
\* when doWithRetry returns that error instead.
doWithRetry(lv, m, path, rb, fault) ==
    IF IsNil(fault) THEN Serve(lv, m, path, rb) ELSE Refuse(lv, Val(fault))

(***************************************************************************)
(* github.Client, the cached reads.  The cache is a Go map: a function     *)
(* whose domain is the set of keys written so far.  Each operation takes   *)
(* the cache, the server state and the fault of its request, and returns   *)
(* [cache, val, err, reqs, calls]: the cache after it, its two results,    *)
(* the requests it handed to doWithRetry and the client methods it called. *)
(***************************************************************************)
getFromCache(c, key) == IF key \in DOMAIN c THEN Some(c[key]) ELSE None

setCache(c, key, value) == [k \in DOMAIN c \cup { key } |-> IF k = key THEN value ELSE c[k]]

Result(c, val, err, rq, calls) ==
    [cache |-> c, val |-> val, err |-> err, reqs |-> rq, calls |-> calls]

\* IsNotFound: no error of the transport is a github.HTTPError, so the test
\* is the one on the text
IsNotFound(err) ==
    IF err.kind = "github.HTTPError" THEN err.status = 404
    ELSE Contains(err.text, Digits(404)) \/ Contains(err.text, << "Not", " ", "Found" >>)

ArchivedError ==
    PlainError("archived", << "repository", " ", ClientOwner, "/", ClientRepo, " ", "is", " ", "archived" >>)

\* a GetRepository that takes an archived repository like any other
GetRepositoryArchivedToo(c, lv, fault) ==
    LET cached == getFromCache(c, RepoKey)
        rq == Request("GET", RepoPath, None)
        me == << "GetRepository" >>
        Answered(got) ==
            IF ~IsNil(got.err) THEN Result(c, None, got.err, << rq >>, me)
            ELSE Result(setCache(c, RepoKey, Val(got.payload)), got.payload, None, << rq >>, me)
    IN IF ~IsNil(cached) THEN Result(c, cached, None, << >>, me)
       ELSE Answered(doWithRetry(lv, "GET", RepoPath, None, fault))

GetRepository(c, lv, fault) ==
    LET cached == getFromCache(c, RepoKey)
        rq == Request("GET", RepoPath, None)
        me == << "GetRepository" >>
        Answered(got) ==
            IF ~IsNil(got.err) THEN Result(c, None, got.err, << rq >>, me)
            ELSE IF Val(got.payload).Archived
            THEN Result(c, None, Some(ArchivedError), << rq >>, me)
            ELSE Result(setCache(c, RepoKey, Val(got.payload)), got.payload, None, << rq >>, me)
    IN IF ~IsNil(cached) THEN Result(c, cached, None, << >>, me)
       ELSE Answered(doWithRetry(lv, "GET", RepoPath, None, fault))

GetWorkflowPermissions(c, lv, fault) ==
    LET rq == Request("GET", WorkflowPermissionsPath, None)
        me == << "GetWorkflowPermissions" >>
        Answered(got) ==
            IF ~IsNil(got.err) THEN Result(c, None, got.err, << rq >>, me)
            ELSE Result(c, got.payload, None, << rq >>, me)
    IN Answered(doWithRetry(lv, "GET", WorkflowPermissionsPath, None, fault))

GetRulesets(c, lv, fault) ==
    LET cached == getFromCache(c, RulesetsKey)
        rq == Request("GET", RulesetsPath, None)
        me == << "GetRulesets" >>
        Answered(got) ==
            IF ~IsNil(got.err) THEN Result(c, None, got.err, << rq >>, me)
            ELSE Result(setCache(c, RulesetsKey, Val(got.payload)), got.payload, None,
                        << rq >>, me)
    IN IF ~IsNil(cached) THEN Result(c, cached, None, << >>, me)
       ELSE Answered(doWithRetry(lv, "GET", RulesetsPath, None, fault))

GetRuleset(c, lv, id, fault) ==
    LET cached == getFromCache(c, RulesetKey(id))
        rq == Request("GET", RulesetPath(id), None)
        me == << "GetRuleset" >>
        Answered(got) ==
            IF ~IsNil(got.err) THEN Result(c, None, got.err, << rq >>, me)
            ELSE Result(setCache(c, RulesetKey(id), Val(got.payload)), got.payload, None,
                        << rq >>, me)
    IN IF ~IsNil(cached) THEN Result(c, cached, None, << >>, me)
       ELSE Answered(doWithRetry(lv, "GET", RulesetPath(id), None, fault))

UnexpectedEncoding(enc) ==
    PlainError("encoding", << "unexpected", " ", "encoding", ":", " ", enc >>)
DecodeError ==
    Wrap("decode", << "failed", " ", "to", " ", "decode", " ", "content" >>,
         PlainError("base64", << "illegal", " ", "base64", " ", "data" >>))

\* the part GetFileContent and GetRemoteFileContent share: fetch, decode, cache
FetchContent(c, lv, key, path, fault, me) ==
    LET cached == getFromCache(c, key)
        rq == Request("GET", path, None)
        Answered(got) ==
            IF ~IsNil(got.err) THEN Result(c, None, got.err, << rq >>, me)
            ELSE IF Val(got.payload).Encoding # "base64"
            THEN Result(c, None, Some(UnexpectedEncoding(Val(got.payload).Encoding)),
                        << rq >>, me)
            ELSE IF IsNil(Val(got.payload).Content)
            THEN Result(c, None, Some(DecodeError), << rq >>, me)
            ELSE Result(setCache(c, key, Val(Val(got.payload).Content)),
                        Val(got.payload).Content, None, << rq >>, me)
    IN IF ~IsNil(cached) THEN Result(c, cached, None, << >>, me)
       ELSE Answered(doWithRetry(lv, "GET", path, None, fault))

GetFileContent(c, lv, filePath, fault) ==
    FetchContent(c, lv, FileKey(filePath),
                 ContentsPath(<< ClientOwner >>, << ClientRepo >>, filePath), fault,
                 << "GetFileContent" >>)

GetRemoteFileContent(c, lv, o, r, filePath, fault) ==
    FetchContent(c, lv, RemoteFileKey(o, r, filePath), ContentsPath(o, r, filePath), fault,
                 << "GetRemoteFileContent" >>)

GetVulnerabilityAlertsEnabled(c, lv, fault) ==
    LET rq == Request("GET", VulnerabilityAlertsPath, None)
        me == << "GetVulnerabilityAlertsEnabled" >>
        Answered(got) ==
            IF IsNil(got.err) THEN Result(c, Some(TRUE), None, << rq >>, me)
            ELSE IF IsNotFound(Val(got.err)) THEN Result(c, Some(FALSE), None, << rq >>, me)
            ELSE Result(c, Some(FALSE), got.err, << rq >>, me)
    IN Answered(doWithRetry(lv, "GET", VulnerabilityAlertsPath, None, fault))

GetAutomatedSecurityFixes(c, lv, fault) ==
    LET rq == Request("GET", AutomatedSecurityFixesPath, None)
        me == << "GetAutomatedSecurityFixes" >>
        Answered(got) ==
            IF ~IsNil(got.err) THEN Result(c, None, got.err, << rq >>, me)
            ELSE Result(c, got.payload, None, << rq >>, me)
    IN Answered(doWithRetry(lv, "GET", AutomatedSecurityFixesPath, None, fault))

CheckPermissions(c, lv, fault) ==
    LET Fetched(r) ==
            IF ~IsNil(r.err)
            THEN Result(r.cache, None,
                        Some(Wrap("permissions", << "insufficient", " ", "permissions", " ", "to",
                                                    " ", "access", " ", "repository" >>,
                                  Val(r.err))),
                        r.reqs, << "CheckPermissions" >> \o r.calls)
            ELSE Result(r.cache, None, None, r.reqs, << "CheckPermissions" >> \o r.calls)
    IN Fetched(GetRepository(c, lv, fault))

(***************************************************************************)
(* The reference resolver.                                                 *)
(***************************************************************************)
LocalReadError(err) ==
    Wrap("local read", << "failed", " ", "to", " ", "read", " ", "local", " ",
                          "reference", " ", "file" >>, err)
ReferenceFormatError(reference) ==
    PlainError("reference format",
               << "reference", " ", "file", " ", "'" >> \o reference
               \o << "'", " ", "not", " ", "found", " ", "locally", " ", "and", " ", "invalid",
                     " ", "remote", " ", "format", " ", "(expected", " ", "owner/repo/path)" >>)
RemoteReferenceError(err) ==
    Wrap("remote reference", << "failed", " ", "to", " ", "fetch", " ", "remote", " ",
                                "reference", " ", "file" >>, err)

\* the remote half of ResolveReferenceFile
ResolveRemote(c, lv, reference, fault) ==
    LET parts == SplitN(reference, 3)
        Fetched(g) ==
            IF ~IsNil(g.err)
            THEN Result(g.cache, None, Some(RemoteReferenceError(Val(g.err))), g.reqs, g.calls)
            ELSE g
    IN IF Len(parts) < 3
       THEN Result(c, None, Some(ReferenceFormatError(reference)), << >>, << >>)
       ELSE Fetched(GetRemoteFileContent(c, lv, parts[1], parts[2], parts[3], fault))

\* ResolveReferenceFile with the two sources tried in the other order: the
\* remote repository first, the local file when that fails.
ResolveRemoteFirst(c, lv, files, reference, fault) ==
    LET local == ReadFile(files, reference)
        Fetched(remote) ==
            IF IsNil(remote.err) THEN remote
            ELSE IF IsNil(local.err)
            THEN Result(remote.cache, local.val, None, remote.reqs, remote.calls)
            ELSE remote
    IN Fetched(ResolveRemote(c, lv, reference, fault))

ResolveReferenceFile(c, lv, files, reference, fault) ==
    LET local == ReadFile(files, reference)
    IN IF IsNil(local.err) THEN Result(c, local.val, None, << >>, << >>)
       ELSE IF ~IsNotExist(Val(local.err))
       THEN Result(c, None, Some(LocalReadError(Val(local.err))), << >>, << >>)
       ELSE ResolveRemote(c, lv, reference, fault)

ParseError ==
    Wrap("parse", << "failed", " ", "to", " ", "parse", " ", "reference", " ", "JSON" >>,
         PlainError("json", << "invalid", " ", "character" >>))

\* FetchReferenceRuleset: val is the parsed ruleset
FetchReferenceRuleset(c, lv, files, reference, fault) ==
    LET Resolved(r) ==
            IF ~IsNil(r.err) THEN r
            ELSE IF IsNil(Val(r.val).json) THEN [r EXCEPT !.val = None, !.err = Some(ParseError)]
            ELSE [r EXCEPT !.val = Val(r.val).json]
    IN Resolved(ResolveReferenceFile(c, lv, files, reference, fault))

(***************************************************************************)
(* github.Client, the writes.  Each returns [live, val, err, reqs, calls]; *)
(* none of them reads or writes the cache.                                 *)
(***************************************************************************)
Effect(lv, val, err, rq, calls) ==
    [live |-> lv, val |-> val, err |-> err, reqs |-> rq, calls |-> calls]

\* a write that is one request and returns its error
WriteThrough(lv, m, path, rb, fault, me) ==
    LET got == doWithRetry(lv, m, path, rb, fault)
    IN Effect(got.live, None, got.err, << Request(m, path, rb) >>, me)

UpdateRepository(lv, req, fault) ==
    WriteThrough(lv, "PATCH", RepoPath, Some(req), fault, << "UpdateRepository" >>)

UpdateWorkflowPermissions(lv, canApprove, fault) ==
    WriteThrough(lv, "PUT", WorkflowPermissionsPath,
                 Some([can_approve_pull_request_reviews |-> canApprove]), fault,
                 << "UpdateWorkflowPermissions" >>)

CreateRuleset(lv, req, fault) ==
    LET rb == Some(EncodeRulesetRequest(req))
        got == doWithRetry(lv, "POST", RulesetsPath, rb, fault)
    IN Effect(got.live, got.payload, got.err, << Request("POST", RulesetsPath, rb) >>,
              << "CreateRuleset" >>)

UpdateRuleset(lv, id, req, fault) ==
    WriteThrough(lv, "PUT", RulesetPath(id), Some(EncodeRulesetRequest(req)), fault,
                 << "UpdateRuleset" >>)

EnableVulnerabilityAlerts(lv, fault) ==
    WriteThrough(lv, "PUT", VulnerabilityAlertsPath, None, fault, << "EnableVulnerabilityAlerts" >>)

DisableVulnerabilityAlerts(lv, fault) ==
    WriteThrough(lv, "DELETE", VulnerabilityAlertsPath, None, fault,
                 << "DisableVulnerabilityAlerts" >>)

EnableAutomatedSecurityFixes(lv, fault) ==
    WriteThrough(lv, "PUT", AutomatedSecurityFixesPath, None, fault,
                 << "EnableAutomatedSecurityFixes" >>)

DisableAutomatedSecurityFixes(lv, fault) ==
    WriteThrough(lv, "DELETE", AutomatedSecurityFixesPath, None, fault,
                 << "DisableAutomatedSecurityFixes" >>)

(***************************************************************************)
(* The values the client is exercised on.                                  *)
(***************************************************************************)
Repository0 ==
    [Name |-> ClientRepo, FullName |-> "acme/widget", DefaultBranch |-> "main",
     Archived |-> FALSE, HasIssues |-> TRUE, HasWiki |-> TRUE, HasProjects |-> FALSE,
     HasDiscussions |-> FALSE, PullRequestCreationPolicy |-> "all",
     AllowMergeCommit |-> TRUE, AllowSquashMerge |-> TRUE, AllowRebaseMerge |-> TRUE,
     AllowAutoMerge |-> FALSE, DeleteBranchOnMerge |-> FALSE, AllowUpdateBranch |-> FALSE]

RepoUpdateRequest0 ==
    [HasIssues |-> None, HasWiki |-> None, HasProjects |-> None, HasDiscussions |-> None,
     PullRequestCreationPolicy |-> None, AllowMergeCommit |-> None,
     AllowSquashMerge |-> None, AllowRebaseMerge |-> None, AllowAutoMerge |-> None,
     DeleteBranchOnMerge |-> None, AllowUpdateBranch |-> None]

\* two rulesets as a reference file spells them (no id)
MainRuleset ==
    [ID |-> 0, Name |-> "main", Target |-> "branch", Enforcement |-> "active",
     Conditions |-> Some([RefName |-> Some([Include |-> Some(<< "~DEFAULT_BRANCH" >>),
                                            Exclude |-> None])]),
     Rules |-> Some(<< [Type |-> "deletion", Parameters |-> None] >>),
     BypassActors |-> None]
TagsRuleset ==
    [ID |-> 0, Name |-> "tags", Target |-> "tag", Enforcement |-> "evaluate",
     Conditions |-> None,
     Rules |-> Some(<< [Type |-> "creation", Parameters |-> None] >>),
     BypassActors |-> Some(<< [ActorID |-> 5, ActorType |-> "RepositoryRole",
                               BypassMode |-> "always"] >>)]

\* RulesetsFixer.buildRulesetRequest, for the configured name and the reference
buildRulesetRequest(name, refRuleset) ==
    LET filled(l) == IF IsNil(l) THEN Some(<< >>) ELSE l
        conditions ==
            IF ~IsNil(refRuleset.Conditions) /\ ~IsNil(Val(refRuleset.Conditions).RefName)
            THEN Some([RefName |-> Some([Include |-> filled(Val(Val(refRuleset.Conditions).RefName).Include),
                                         Exclude |-> filled(Val(Val(refRuleset.Conditions).RefName).Exclude)])])
            ELSE refRuleset.Conditions
    IN [Name |-> name, Target |-> refRuleset.Target, Enforcement |-> refRuleset.Enforcement,
        Conditions |-> conditions, Rules |-> refRuleset.Rules,
        BypassActors |-> filled(refRuleset.BypassActors)]

\* the references: owner/repo/path, a relative path, a bare file name
RemoteReference == << "acme", "/", "acme", "/", "rulesets", "/", "main.json" >>
PathReference == << "rules", "/", "tags.json" >>
BareReference == << "LICENSE.tmpl" >>
References == { RemoteReference, PathReference, BareReference }

\* the files of the server that a request can name: << owner, repo, path >>
OwnerFile == << << "acme" >>, << "acme" >>, << "rulesets", "/", "main.json" >> >>
RepoFile == << << ClientOwner >>, << ClientRepo >>, << "README.md" >> >>
RemoteFiles == { OwnerFile, RepoFile }

MainJSON == Bytes(<< "{", "main", "}" >>, Some(MainRuleset))
TagsJSON == Bytes(<< "{", "tags", "}" >>, Some(TagsRuleset))
LicenseText == Bytes(<< "Copyright", " ", "{{.owner}}", "/", "{{ .repo }}", "\n" >>, None)

\* what GET contents answers: base64 of the bytes, or a file too large to inline
Base64File(bytes) == [Encoding |-> "base64", Content |-> Some(bytes)]
LargeFile == [Encoding |-> "none", Content |-> Some(Bytes(<< >>, None))]

LocalPaths == References \cup { << "LICENSE" >> }
LocalFile(mode, content) == [mode |-> mode, content |-> content]

Live0 ==
    [repo |-> Repository0,
     perms |-> [DefaultWorkflowPermissions |-> "read", CanApprovePullRequestReviews |-> FALSE],
     alerts |-> FALSE,
     secfix |-> [Enabled |-> FALSE, Paused |-> FALSE],
     rulesets |-> << >>,
     files |-> [f \in RemoteFiles |-> None]]
Fs0 == [p \in LocalPaths |-> None]

\* The worlds a session on one kind of resource starts in: [live, fs].
Worlds(family) ==
    CASE family = "repository" ->
           { [live |-> [Live0 EXCEPT !.repo.Archived = a, !.repo.HasIssues = i], fs |-> Fs0] :
               a \in BOOLEAN, i \in BOOLEAN }
      [] family = "workflow" ->
           { [live |-> [Live0 EXCEPT !.perms.CanApprovePullRequestReviews = a], fs |-> Fs0] :
               a \in BOOLEAN }
      [] family = "dependabot" ->
           { [live |-> [Live0 EXCEPT !.alerts = a, !.secfix.Enabled = s], fs |-> Fs0] :
               a \in BOOLEAN, s \in BOOLEAN }
      [] family = "rulesets" ->
           { [live |-> [Live0 EXCEPT !.rulesets = l], fs |-> Fs0] :
               l \in { << >>,
                       << StoreRuleset(1, EncodeRulesetRequest(buildRulesetRequest("main", TagsRuleset))) >> } }
      [] family = "files" ->
           { [live |-> [Live0 EXCEPT !.files = [f \in RemoteFiles |-> IF f = OwnerFile THEN o ELSE r]],
              fs |-> [Fs0 EXCEPT ![p] = l]] :
               o \in { None, Some(Base64File(MainJSON)), Some(LargeFile) },
               r \in { None, Some(Base64File(LicenseText)) },
               p \in References,
               l \in { None, Some(LocalFile("rw", TagsJSON)), Some(LocalFile("none", TagsJSON)) } }

Families == { "repository", "workflow", "dependabot", "rulesets", "files" }

(***************************************************************************)
(* A session of calls on one client.  op is [name, args], the arguments    *)
(* rendered as strings.  A session keeps to one kind of resource so that   *)
(* the resources do not multiply each other's states.                      *)
(***************************************************************************)
Op(name, args) == [name |-> name, args |-> args]

FamilyOf(name) ==
    CASE name \in { "GetRepository", "CheckPermissions", "UpdateRepository" } -> "repository"
      [] name \in { "GetWorkflowPermissions", "UpdateWorkflowPermissions" } -> "workflow"
      [] name \in { "GetRulesets", "GetRuleset", "CreateRuleset", "UpdateRuleset" } -> "rulesets"
      [] name \in { "GetVulnerabilityAlertsEnabled", "EnableVulnerabilityAlerts",
                    "DisableVulnerabilityAlerts", "GetAutomatedSecurityFixes",
                    "EnableAutomatedSecurityFixes", "DisableAutomatedSecurityFixes" } -> "dependabot"
      [] OTHER -> "files"

Family(o) == IF o.name = "start" THEN o.args[1][1] ELSE FamilyOf(o.name)

MaybeFault == { None } \cup { Some(e) : e \in Faults }

\* a client that has not been used
ClientNew ==
    /\ cache = << >>
    /\ ret = [val |-> None, err |-> None]
    /\ reqs = << >>
    /\ called = << >>
    /\ firstOk = << >>
    /\ again = FALSE

ClientIdle ==
    /\ ClientNew
    /\ live = Live0
    /\ fs = Fs0
    /\ op = Op("idle", << >>)

ClientStart ==
    /\ ClientNew
    /\ \E family \in Families : \E w \in Worlds(family) :
         /\ live = w.live
         /\ fs = w.fs
         /\ op = Op("start", << << family >> >>)

Returns(o, r) ==
    /\ Family(op) = FamilyOf(o.name)
    /\ op' = o
    /\ ret' = [val |-> r.val, err |-> r.err]
    /\ reqs' = r.reqs
    /\ called' = r.calls
    /\ again' = (o \in DOMAIN firstOk)
    /\ UNCHANGED exceptClient

\* the read operations of the client proper
ReadOperations ==
    { "GetRepository", "GetWorkflowPermissions", "GetRulesets", "GetRuleset", "GetFileContent",
      "GetRemoteFileContent", "GetVulnerabilityAlertsEnabled", "GetAutomatedSecurityFixes" }

\* a read: r is the [cache, val, err, reqs, calls] of the operation
Read(o, r) ==
    /\ Returns(o, r)
    /\ cache' = r.cache
    /\ firstOk' = IF o.name \in ReadOperations /\ IsNil(r.err) /\ o \notin DOMAIN firstOk
                  THEN [k \in DOMAIN firstOk \cup { o } |-> IF k = o THEN r.val ELSE firstOk[k]]
                  ELSE firstOk
    /\ UNCHANGED << live, fs >>

\* a write that drops the cache
WriteInvalidating(o, e) ==
    /\ Returns(o, e)
    /\ live' = e.live
    /\ cache' = << >>
    /\ UNCHANGED << fs, firstOk >>

\* a write: e is the [live, val, err, reqs, calls] of the operation
Write(o, e) ==
    /\ Returns(o, e)
    /\ live' = e.live
    /\ UNCHANGED << cache, fs, firstOk >>

CallGetRepository ==
    \E fault \in MaybeFault : Read(Op("GetRepository", << >>), GetRepository(cache, live, fault))

CallCheckPermissions ==
    \E fault \in MaybeFault : Read(Op("CheckPermissions", << >>), CheckPermissions(cache, live, fault))

CallGetWorkflowPermissions ==
    \E fault \in MaybeFault :
        Read(Op("GetWorkflowPermissions", << >>), GetWorkflowPermissions(cache, live, fault))

CallGetRulesets ==
    \E fault \in MaybeFault : Read(Op("GetRulesets", << >>), GetRulesets(cache, live, fault))

CallGetRuleset ==
    \E id \in 1..MaxRulesets : \E fault \in MaybeFault :
        Read(Op("GetRuleset", << Digits(id) >>), GetRuleset(cache, live, id, fault))

CallGetFileContent ==
    \E fault \in MaybeFault :
        Read(Op("GetFileContent", << RepoFile[3] >>), GetFileContent(cache, live, RepoFile[3], fault))

CallGetRemoteFileContent ==
    \E f \in RemoteFiles : \E fault \in MaybeFault :
        Read(Op("GetRemoteFileContent", f), GetRemoteFileContent(cache, live, f[1], f[2], f[3], fault))

CallGetVulnerabilityAlertsEnabled ==
    \E fault \in MaybeFault :
        Read(Op("GetVulnerabilityAlertsEnabled", << >>),
             GetVulnerabilityAlertsEnabled(cache, live, fault))

CallGetAutomatedSecurityFixes ==
    \E fault \in MaybeFault :
        Read(Op("GetAutomatedSecurityFixes", << >>), GetAutomatedSecurityFixes(cache, live, fault))

CallResolveReferenceFile ==
    \E reference \in References : \E fault \in MaybeFault :
        Read(Op("ResolveReferenceFile", << reference >>),
             ResolveReferenceFile(cache, live, fs, reference, fault))

CallFetchReferenceRuleset ==
    \E reference \in References : \E fault \in MaybeFault :
        Read(Op("FetchReferenceRuleset", << reference >>),
             FetchReferenceRuleset(cache, live, fs, reference, fault))

CallUpdateRepository ==
    \E b \in BOOLEAN : \E fault \in MaybeFault :
        Write(Op("UpdateRepository", << << "has_issues" >> >>),
              UpdateRepository(live, [RepoUpdateRequest0 EXCEPT !.HasIssues = Some(b)], fault))

CallUpdateWorkflowPermissions ==
    \E b \in BOOLEAN : \E fault \in MaybeFault :
        Write(Op("UpdateWorkflowPermissions", << >>), UpdateWorkflowPermissions(live, b, fault))

CallCreateRuleset ==
    /\ Len(live.rulesets) < MaxRulesets
    /\ \E fault \in MaybeFault :
         LET req == buildRulesetRequest("tags", TagsRuleset)
         IN Write(Op("CreateRuleset", << << req.Name >> >>), CreateRuleset(live, req, fault))

CallUpdateRuleset ==
    \E id \in { 1, MaxRulesets + 1 } : \E fault \in MaybeFault :
        LET req == buildRulesetRequest("main", MainRuleset)
        IN Write(Op("UpdateRuleset", << Digits(id), << req.Name >> >>),
                 UpdateRuleset(live, id, req, fault))

CallEnableVulnerabilityAlerts ==
    \E fault \in MaybeFault :
        Write(Op("EnableVulnerabilityAlerts", << >>), EnableVulnerabilityAlerts(live, fault))

CallDisableVulnerabilityAlerts ==
    \E fault \in MaybeFault :
        Write(Op("DisableVulnerabilityAlerts", << >>), DisableVulnerabilityAlerts(live, fault))

CallEnableAutomatedSecurityFixes ==
    \E fault \in MaybeFault :
        Write(Op("EnableAutomatedSecurityFixes", << >>), EnableAutomatedSecurityFixes(live, fault))

CallDisableAutomatedSecurityFixes ==
    \E fault \in MaybeFault :
        Write(Op("DisableAutomatedSecurityFixes", << >>), DisableAutomatedSecurityFixes(live, fault))

CallWriteFile ==
    \E path \in { << "LICENSE" >>, PathReference } :
        LET w == WriteFile(fs, path, HydrateTemplate(LicenseText))
        IN /\ Returns(Op("WriteFile", << path >>),
                      [val |-> None, err |-> w.err, reqs |-> << >>, calls |-> << "WriteFile" >>])
           /\ fs' = w.fs
           /\ UNCHANGED << cache, live, firstOk >>

CallGetLocalFileContent ==
    \E path \in LocalPaths :
        LET r == GetLocalFileContent(fs, path)
        IN /\ Returns(Op("GetLocalFileContent", << path >>),
                      [val |-> r.val, err |-> r.err, reqs |-> << >>,
                       calls |-> << "GetLocalFileContent" >>])
           /\ UNCHANGED << cache, live, fs, firstOk >>

ClientNext ==
    \/ CallGetRepository
    \/ CallCheckPermissions
    \/ CallGetWorkflowPermissions
    \/ CallGetRulesets
    \/ CallGetRuleset
    \/ CallGetFileContent
    \/ CallGetRemoteFileContent
    \/ CallGetVulnerabilityAlertsEnabled
    \/ CallGetAutomatedSecurityFixes
    \/ CallResolveReferenceFile
    \/ CallFetchReferenceRuleset
    \/ CallUpdateRepository
    \/ CallUpdateWorkflowPermissions
    \/ CallCreateRuleset
    \/ CallUpdateRuleset
    \/ CallEnableVulnerabilityAlerts
    \/ CallDisableVulnerabilityAlerts
    \/ CallEnableAutomatedSecurityFixes
    \/ CallDisableAutomatedSecurityFixes
    \/ CallWriteFile
    \/ CallGetLocalFileContent

(***************************************************************************)
(* checks: the issues and the three checks that read through the client.   *)
(* A handler works on a context x = [cache, live, fs, reqs, plan]: the     *)
(* client's cache, the server, the working directory, the requests sent so *)
(* far and the fault plan [at, err] (request number at fails with err; at  *)
(* is 0 when none does).                                                   *)
(***************************************************************************)
Context(c, lv, files, plan) == [cache |-> c, live |-> lv, fs |-> files, reqs |-> << >>, plan |-> plan]

FaultFor(x) == IF x.plan.at = Len(x.reqs) + 1 THEN Some(x.plan.err) ELSE None

\* the context after a read r and after a write e
AfterRead(x, r) == [x EXCEPT !.cache = r.cache, !.reqs = x.reqs \o r.reqs]
AfterWrite(x, e) == [x EXCEPT !.live = e.live, !.reqs = x.reqs \o e.reqs]

\* Issue.Data, a missing key reading as the empty string
Data(fileName, reference, rulesetName, setting) ==
    [file_name |-> fileName, reference |-> reference, ruleset_name |-> rulesetName,
     setting |-> setting]

Issue(type, name, message, fixable, data) ==
    [Type |-> type, Name |-> name, Message |-> message, Fixable |-> fixable, Data |-> data]

\* what Run returns: the context after it, the issues, the error
Checked(x, issues, err) == [x |-> x, issues |-> issues, err |-> err]

boolToEnabled(b) == IF b THEN "enabled" ELSE "disabled"
boolToAllowed(b) == IF b THEN "allowed" ELSE "disallowed"

\* one "X is A but should be B" issue of the settings check, or none
SettingIssue(want, have, setting, subject, word(_)) ==
    IF ~IsNil(want) /\ have # Val(want)
    THEN << Issue("settings", << "settings" >>,
                  subject \o << " ", word(have), " ", "but", " ", "should", " ", "be", " ",
                                word(Val(want)) >>,
                  TRUE, Data(<< >>, << >>, "", setting)) >>
    ELSE << >>

\* glob.Compile and Match, for the patterns used here: "[" does not
\* compile, "*" matches every branch name, any other pattern is literal
GlobCompiles(pattern) == pattern # "["
GlobMatch(pattern, name) == pattern = "*" \/ pattern = name

checkMergeSettings(merge, r) ==
    SettingIssue(merge.AllowMergeCommit, r.AllowMergeCommit, "merge_commit",
                 << "Merge", " ", "commits", " ", "are" >>, boolToAllowed)
    \o SettingIssue(merge.AllowSquashMerge, r.AllowSquashMerge, "squash_merge",
                    << "Squash", " ", "merge", " ", "is" >>, boolToAllowed)
    \o SettingIssue(merge.AllowRebaseMerge, r.AllowRebaseMerge, "rebase_merge",
                    << "Rebase", " ", "merge", " ", "is" >>, boolToAllowed)
    \o SettingIssue(merge.AllowAutoMerge, r.AllowAutoMerge, "auto_merge",
                    << "Auto-merge", " ", "is" >>, boolToEnabled)
    \o SettingIssue(merge.DeleteBranchOnMerge, r.DeleteBranchOnMerge, "delete_branch_on_merge",
                    << "Delete", " ", "branch", " ", "on", " ", "merge", " ", "is" >>, boolToEnabled)
    \o SettingIssue(merge.AlwaysSuggestUpdatingPullRequestBranches, r.AllowUpdateBranch,
                    "update_branch",
                    << "Always", " ", "suggest", " ", "updating", " ", "PR", " ", "branches",
                       " ", "is" >>, boolToEnabled)

\* SettingsCheck.checkDependabotSettings
checkDependabotSettings(x, dep) ==
    LET HavingFixes(xa, alerts, rs) ==
            IF ~IsNil(rs.err)
            THEN Checked(AfterRead(xa, rs), << >>,
                         Some(Wrap("check", << "failed", " ", "to", " ", "check", " ",
                                               "automated", " ", "security", " ", "fixes" >>,
                                   Val(rs.err))))
            ELSE Checked(AfterRead(xa, rs),
                         alerts \o SettingIssue(dep.SecurityUpdates, Val(rs.val).Enabled,
                                                "dependabot_security_updates",
                                                << "Dependabot", " ", "security", " ", "updates",
                                                   " ", "is" >>, boolToEnabled),
                         None)
        HavingAlerts(ra) ==
            LET xa == IF IsNil(dep.Alerts) THEN x ELSE AfterRead(x, ra)
                alerts == IF IsNil(dep.Alerts) THEN << >>
                          ELSE SettingIssue(dep.Alerts, Val(ra.val), "dependabot_alerts",
                                            << "Dependabot", " ", "alerts", " ", "is" >>,
                                            boolToEnabled)
            IN IF ~IsNil(dep.Alerts) /\ ~IsNil(ra.err)
               THEN Checked(xa, << >>,
                            Some(Wrap("check", << "failed", " ", "to", " ", "check", " ",
                                                  "vulnerability", " ", "alerts" >>, Val(ra.err))))
               ELSE IF IsNil(dep.SecurityUpdates) THEN Checked(xa, alerts, None)
               ELSE HavingFixes(xa, alerts,
                                GetAutomatedSecurityFixes(xa.cache, xa.live, FaultFor(xa)))
    IN HavingAlerts(GetVulnerabilityAlertsEnabled(x.cache, x.live, FaultFor(x)))

\* SettingsCheck.Run
SettingsCheck(x, cfg) ==
    LET s == Val(cfg)
        HavingDependabot(before, dep) ==
            IF ~IsNil(dep.err) THEN dep
            ELSE Checked(dep.x, before \o dep.issues, None)
        HavingPermissions(xr, r, rp) ==
            LET toggles ==
                    SettingIssue(s.Issues, r.HasIssues, "issues", << "Issues", " ", "is" >>,
                                 boolToEnabled)
                    \o SettingIssue(s.Wiki, r.HasWiki, "wiki", << "Wiki", " ", "is" >>,
                                    boolToEnabled)
                    \o SettingIssue(s.Projects, r.HasProjects, "projects",
                                    << "Projects", " ", "is" >>, boolToEnabled)
                    \o SettingIssue(s.Discussions, r.HasDiscussions, "discussions",
                                    << "Discussions", " ", "is" >>, boolToEnabled)
                xp == IF IsNil(s.AllowActionsToApprovePRs) THEN xr ELSE AfterRead(xr, rp)
                approve ==
                    IF IsNil(s.AllowActionsToApprovePRs) THEN << >>
                    ELSE SettingIssue(s.AllowActionsToApprovePRs,
                                      Val(rp.val).CanApprovePullRequestReviews,
                                      "actions_approve_prs",
                                      << "Actions", " ", "can", " ", "approve", " ", "PRs", " ",
                                         "is" >>,
                                      boolToEnabled)
                merge == IF IsNil(s.Merge) THEN << >> ELSE checkMergeSettings(Val(s.Merge), r)
                branch ==
                    IF s.DefaultBranch # "" /\ ~GlobMatch(s.DefaultBranch, r.DefaultBranch)
                    THEN << Issue("settings", << "settings" >>,
                                  << "Default", " ", "branch", " ", "'", r.DefaultBranch, "'",
                                     " ", "does", " ", "not", " ", "match", " ", "pattern", " ",
                                     "'", s.DefaultBranch, "'" >>,
                                  FALSE, Data(<< >>, << >>, "", "")) >>
                    ELSE << >>
                creation ==
                    IF s.PullRequestCreationPolicy # ""
                       /\ r.PullRequestCreationPolicy # s.PullRequestCreationPolicy
                    THEN << Issue("settings", << "settings" >>,
                                  << "Pull", " ", "request", " ", "creation", " ", "policy", " ",
                                     "is", " ", "'", r.PullRequestCreationPolicy, "'", " ", "but",
                                     " ", "should", " ", "be", " ", "'",
                                     s.PullRequestCreationPolicy, "'" >>,
                                  TRUE, Data(<< >>, << >>, "", "pull_request_creation_policy")) >>
                    ELSE << >>
            IN IF ~IsNil(s.AllowActionsToApprovePRs) /\ ~IsNil(rp.err)
               THEN Checked(xp, << >>,
                            Some(Wrap("check", << "failed", " ", "to", " ", "fetch", " ",
                                                  "workflow", " ", "permissions" >>, Val(rp.err))))
               ELSE IF s.DefaultBranch # "" /\ ~GlobCompiles(s.DefaultBranch)
               THEN Checked(xp, << >>,
                            Some(Wrap("check", << "invalid", " ", "default_branch", " ",
                                                  "pattern" >>,
                                      PlainError("glob", << "unexpected", " ", "end", " ", "of",
                                                            " ", "input" >>))))
               ELSE IF IsNil(s.Dependabot)
               THEN Checked(xp, toggles \o approve \o merge \o branch \o creation, None)
               ELSE HavingDependabot(toggles \o approve \o merge \o branch \o creation,
                                     checkDependabotSettings(xp, Val(s.Dependabot)))
        HavingRepository(rr) ==
            IF ~IsNil(rr.err)
            THEN Checked(AfterRead(x, rr), << >>,
                         Some(Wrap("check", << "failed", " ", "to", " ", "fetch", " ",
                                               "repository" >>, Val(rr.err))))
            ELSE HavingPermissions(AfterRead(x, rr), Val(rr.val),
                                   GetWorkflowPermissions(AfterRead(x, rr).cache,
                                                          AfterRead(x, rr).live,
                                                          FaultFor(AfterRead(x, rr))))
    IN IF IsNil(cfg) THEN Checked(x, << >>, None)
       ELSE HavingRepository(GetRepository(x.cache, x.live, FaultFor(x)))

\* len and the elements of a slice that may be nil
LenOf(l) == IF IsNil(l) THEN 0 ELSE Len(Val(l))
Items(l) == IF IsNil(l) THEN << >> ELSE Val(l)

stringSlicesEqual(a, b) ==
    /\ LenOf(a) = LenOf(b)
    /\ \A i \in 1..LenOf(a) : Items(a)[i] = Items(b)[i]

conditionsMatch(actual, expected) ==
    IF IsNil(actual) /\ IsNil(expected) THEN TRUE
    ELSE IF IsNil(actual) \/ IsNil(expected) THEN FALSE
    ELSE IF IsNil(Val(actual).RefName) /\ IsNil(Val(expected).RefName) THEN TRUE
    ELSE IF IsNil(Val(actual).RefName) \/ IsNil(Val(expected).RefName) THEN FALSE
    ELSE /\ stringSlicesEqual(Val(Val(actual).RefName).Include, Val(Val(expected).RefName).Include)
         /\ stringSlicesEqual(Val(Val(actual).RefName).Exclude, Val(Val(expected).RefName).Exclude)

\* rule parameters are nil or a map, and two maps have the same JSON when
\* they are the same map
ruleParametersMatch(actual, expected) ==
    IF IsNil(actual) /\ IsNil(expected) THEN TRUE
    ELSE IF IsNil(actual) THEN DOMAIN Val(expected) = {}
    ELSE IF IsNil(expected) THEN DOMAIN Val(actual) = {}
    ELSE Val(actual) = Val(expected)

\* the map by rule type that rulesMatch builds: a later rule of a type
\* replaces an earlier one
RulesByType(rules) ==
    [t \in { rules[i].Type : i \in 1..Len(rules) } |->
        rules[CHOOSE i \in 1..Len(rules) :
                 rules[i].Type = t /\ \A j \in (i + 1)..Len(rules) : rules[j].Type # t]]

rulesMatch(actual, expected) ==
    LET a == RulesByType(Items(actual))
        e == RulesByType(Items(expected))
    IN /\ LenOf(actual) = LenOf(expected)
       /\ \A t \in DOMAIN e : t \in DOMAIN a /\ ruleParametersMatch(a[t].Parameters, e[t].Parameters)
       /\ \A t \in DOMAIN a : t \in DOMAIN e

bypassActorsMatch(actual, expected) ==
    LET key(actor) == << actor.ActorID, actor.ActorType, actor.BypassMode >>
        expectedSet == { key(Items(expected)[i]) : i \in 1..LenOf(expected) }
    IN /\ LenOf(actual) = LenOf(expected)
       /\ \A i \in 1..LenOf(actual) : key(Items(actual)[i]) \in expectedSet

rulesetsMatch(actual, expected) ==
    /\ actual.Enforcement = expected.Enforcement
    /\ actual.Target = expected.Target
    /\ conditionsMatch(actual.Conditions, expected.Conditions)
    /\ rulesMatch(actual.Rules, expected.Rules)
    /\ bypassActorsMatch(actual.BypassActors, expected.BypassActors)

\* the id of the first ruleset of the list with the name, 0 when there is none
FindRuleset(list, name) ==
    LET at == { i \in 1..Len(list) : list[i].Name = name }
    IN IF at = {} THEN 0 ELSE list[CHOOSE i \in at : \A j \in at : i <= j].ID

\* RulesetsCheck.Run, cfg the option of a RulesetConfig
RulesetsCheck(x, cfg) ==
    LET rc == Val(cfg)
        name == << "rulesets(", rc.Name, ")" >>
        data == Data(<< >>, rc.Reference, rc.Name, "")
        HavingRuleset(xl, rf, rd) ==
            IF ~IsNil(rd.err)
            THEN Checked(AfterRead(xl, rd), << >>,
                         Some(Wrap("check", << "failed", " ", "to", " ", "fetch", " ", "ruleset",
                                               " ", "details" >>, Val(rd.err))))
            ELSE IF ~rulesetsMatch(Val(rd.val), Val(rf.val))
            THEN Checked(AfterRead(xl, rd),
                         << Issue("rulesets", name,
                                  << "Ruleset", " ", "'", rc.Name, "'", " ", "does", " ", "not",
                                     " ", "match", " ", "reference", " ", "'" >> \o rc.Reference
                                  \o << "'" >>, TRUE, data) >>, None)
            ELSE Checked(AfterRead(xl, rd), << >>, None)
        HavingRulesets(xf, rf, rl) ==
            LET xl == AfterRead(xf, rl)
                id == FindRuleset(Val(rl.val), rc.Name)
            IN IF ~IsNil(rl.err)
               THEN Checked(xl, << >>,
                            Some(Wrap("check", << "failed", " ", "to", " ", "fetch", " ",
                                                  "rulesets" >>, Val(rl.err))))
               ELSE IF id = 0
               THEN Checked(xl, << Issue("rulesets", name,
                                         << "Ruleset", " ", "'", rc.Name, "'", " ", "does", " ",
                                            "not", " ", "exist" >>, TRUE, data) >>, None)
               ELSE HavingRuleset(xl, rf, GetRuleset(xl.cache, xl.live, id, FaultFor(xl)))
        HavingReference(rf) ==
            LET xf == AfterRead(x, rf)
            IN IF ~IsNil(rf.err)
               THEN Checked(xf, << >>,
                            Some(Wrap("check", << "failed", " ", "to", " ", "fetch", " ",
                                                  "reference", " ", "ruleset" >>, Val(rf.err))))
               ELSE HavingRulesets(xf, rf, GetRulesets(xf.cache, xf.live, FaultFor(xf)))
    IN IF IsNil(cfg) THEN Checked(x, << >>, None)
       ELSE IF rc.Reference = << >>
       THEN Checked(x, << >>,
                    Some(PlainError("check", << "ruleset", " ", "'", rc.Name, "'", " ", "missing",
                                                " ", "required", " ", "reference", " ", "field" >>)))
       ELSE HavingReference(FetchReferenceRuleset(x.cache, x.live, x.fs, rc.Reference,
                                                  FaultFor(x)))

Whitespace == { " ", "\n", "\t" }

RECURSIVE TrimLeft(_)
TrimLeft(str) == IF str # << >> /\ str[1] \in Whitespace THEN TrimLeft(Tail(str)) ELSE str

RECURSIVE TrimRight(_)
TrimRight(str) ==
    IF str # << >> /\ str[Len(str)] \in Whitespace
    THEN TrimRight(SubSeq(str, 1, Len(str) - 1)) ELSE str

\* bytes.TrimSpace
TrimSpace(content) == TrimRight(TrimLeft(content.tokens))

\* FilesCheck.Run, cfg the option of a FileConfig
FilesCheck(x, cfg) ==
    LET fc == Val(cfg)
        name == << "files(" >> \o fc.Name \o << ")" >>
        data == Data(fc.Name, fc.Reference, "", "")
        HavingReference(rf) ==
            LET xf == AfterRead(x, rf)
                hydrated == HydrateTemplate(Val(rf.val))
                actual == GetLocalFileContent(xf.fs, fc.Name)
            IN IF ~IsNil(rf.err)
               THEN Checked(xf, << >>,
                            Some(Wrap("check", << "failed", " ", "to", " ", "fetch", " ",
                                                  "reference", " ", "file" >>, Val(rf.err))))
               ELSE IF ~IsNil(actual.err)
               THEN Checked(xf, << Issue("files", name,
                                         << "File", " ", "'" >> \o fc.Name
                                         \o << "'", " ", "does", " ", "not", " ", "exist" >>,
                                         TRUE, data) >>, None)
               ELSE IF TrimSpace(Val(actual.val)) # TrimSpace(hydrated)
               THEN Checked(xf, << Issue("files", name,
                                         << "File", " ", "'" >> \o fc.Name
                                         \o << "'", " ", "does", " ", "not", " ", "match", " ",
                                               "reference", " ", "'" >> \o fc.Reference
                                         \o << "'" >>,
                                         TRUE, data) >>, None)
               ELSE Checked(xf, << >>, None)
    IN IF IsNil(cfg) THEN Checked(x, << >>, None)
       ELSE IF fc.Reference = << >>
       THEN Checked(x, << >>,
                    Some(PlainError("check", << "file", " ", "'" >> \o fc.Name
                                             \o << "'", " ", "missing", " ", "required", " ",
                                                   "reference", " ", "field" >>)))
       ELSE HavingReference(ResolveReferenceFile(x.cache, x.live, x.fs, fc.Reference,
                                                 FaultFor(x)))

(***************************************************************************)
(* checks.ActionsCheck.  A workflow file is its bytes together with what   *)
(* they parse to: yaml is the option of the Workflow (nil when the bytes   *)
(* are no YAML) and uses lists the `uses: action@version` statements of    *)
(* the text.  A Workflow is [Permissions, Jobs], a job [Name,              *)
(* TimeoutMinutes, Permissions].  The jobs of a workflow are visited in    *)
(* the order of a Go map iteration; the workflows here have one job.       *)
(***************************************************************************)
WorkflowBytes(tokens, wf, uses) == [tokens |-> tokens, json |-> None, yaml |-> wf, uses |-> uses]

\* yaml.Unmarshal of the bytes: the option of the document
YamlOf(content) == IF "yaml" \in DOMAIN content THEN content.yaml ELSE None
UsesOf(content) == IF "uses" \in DOMAIN content THEN content.uses ELSE << >>

\* the scalars of a YAML text: its tokens without the layout
Scalars(content) == { content.tokens[i] : i \in { j \in 1..Len(content.tokens) :
                                                   content.tokens[j] \notin { " ", "\n", "\t" } } }

\* yamlEqual: both texts parse and their canonical forms are the same
yamlEqual(a, b) ==
    /\ ~IsNil(YamlOf(a)) /\ ~IsNil(YamlOf(b))
    /\ YamlOf(a) = YamlOf(b)
    /\ Scalars(a) = Scalars(b)

\* isSHA, a version being [len, hex]: its length and whether all of it is hex digits
isSHA(version) == version.len = 40 /\ version.hex

WorkflowDir == << ".github", "/", "workflows" >>

\* the names a workflow directory can hold, in the order os.ReadDir lists them
WorkflowNames == << << "ci", ".yml" >>, << "notes", ".txt" >>, << "release", ".yaml" >> >>

\* ActionsCheck.findWorkflowFiles: the .yml and .yaml files of the directory
findWorkflowFiles(files) ==
    LET paths == [i \in 1..Len(WorkflowNames) |-> WorkflowDir \o << "/" >> \o WorkflowNames[i]]
        isWorkflow(p) == FileExists(files, p) /\ p[Len(p)] \in { ".yml", ".yaml" }
    IN SelectSeq(paths, isWorkflow)

\* github.ReadLocalWorkflowFile: [wf, content, err]
ReadLocalWorkflowFile(files, path) ==
    LET r == ReadFile(files, path)
    IN IF ~IsNil(r.err) THEN [wf |-> None, content |-> None, err |-> r.err]
       ELSE IF IsNil(YamlOf(Val(r.val)))
       THEN [wf |-> None, content |-> r.val,
             err |-> Some(Wrap("yaml", << "invalid", " ", "workflow", " ", "file", " " >> \o path,
                               PlainError("yaml", << "cannot", " ", "unmarshal" >>)))]
       ELSE [wf |-> YamlOf(Val(r.val)), content |-> r.val, err |-> None]

ActionsIssue(message, fixable, data) == Issue("actions", << "actions" >>, message, fixable, data)
NoData == Data(<< >>, << >>, "", "")

RECURSIVE checkPinnedVersions(_, _)
\* ActionsCheck.checkPinnedVersions over the matches of the uses: pattern
checkPinnedVersions(wfPath, matches) ==
    IF matches = << >> THEN << >>
    ELSE LET action == matches[1].action
             version == matches[1].version
             firstParty == Len(action) >= 2 /\ action[2] = "/"
                           /\ action[1] \in { "actions", "github", "cli", "dependabot" }
         IN (IF ~firstParty /\ ~isSHA(version)
             THEN << ActionsIssue(<< "Action", " ", "'" >> \o action \o << "@", version.text, "'",
                                     " ", "in", " ", "'" >> \o wfPath
                                  \o << "'", " ", "is", " ", "not", " ", "pinned", " ", "to", " ",
                                        "a", " ", "SHA" >>, FALSE, NoData) >>
             ELSE << >>)
            \o checkPinnedVersions(wfPath, Tail(matches))

RECURSIVE checkTimeout(_, _, _)
\* ActionsCheck.checkTimeout over the jobs, maxMinutes the option MaxTimeoutMinutes
checkTimeout(wfPath, jobs, maxMinutes) ==
    IF jobs = << >> THEN << >>
    ELSE LET job == jobs[1]
         IN (IF job.TimeoutMinutes = 0
             THEN << ActionsIssue(<< "Job", " ", "'", job.Name, "'", " ", "in", " ", "'" >>
                                  \o wfPath
                                  \o << "'", " ", "does", " ", "not", " ", "have", " ",
                                        "timeout-minutes", " ", "set" >>, FALSE, NoData) >>
             ELSE IF ~IsNil(maxMinutes) /\ job.TimeoutMinutes > Val(maxMinutes)
             THEN << ActionsIssue(<< "Job", " ", "'", job.Name, "'", " ", "in", " ", "'" >>
                                  \o wfPath
                                  \o << "'", " ", "has", " ", "timeout-minutes", " ", "(" >>
                                  \o Digits(job.TimeoutMinutes)
                                  \o << ")", " ", "exceeding", " ", "maximum", " ", "(" >>
                                  \o Digits(Val(maxMinutes)) \o << ")" >>, FALSE, NoData) >>
             ELSE << >>)
            \o checkTimeout(wfPath, Tail(jobs), maxMinutes)

\* ActionsCheck.checkPermissions
checkPermissions(wfPath, wf) ==
    IF IsNil(wf.Permissions) /\ \E i \in 1..Len(wf.Jobs) : IsNil(wf.Jobs[i].Permissions)
    THEN << ActionsIssue(<< "Workflow", " ", "'" >> \o wfPath
                         \o << "'", " ", "does", " ", "not", " ", "declare", " ", "permissions",
                               " ", "at", " ", "workflow", " ", "or", " ", "job", " ", "level" >>,
                         FALSE, NoData) >>
    ELSE << >>

\* a rule that is on unless the configuration turns it off
IsTrueOrUnset(b) == IsNil(b) \/ Val(b)

\* c.config.X != nil && *c.config.X
IsTrue(b) == ~IsNil(b) /\ Val(b)

\* ActionsCheck.checkWorkflowRules
checkWorkflowRules(x, cfg, wfPath) ==
    LET Parsed(r) ==
            IF ~IsNil(r.err) THEN Checked(x, << >>, r.err)
            ELSE Checked(x,
                         (IF IsTrue(cfg.RequirePinnedVersions)
                          THEN checkPinnedVersions(wfPath, UsesOf(Val(r.content))) ELSE << >>)
                         \o (IF IsTrue(cfg.RequireTimeout)
                             THEN checkTimeout(wfPath, Val(r.wf).Jobs, cfg.MaxTimeoutMinutes)
                             ELSE << >>)
                         \o (IF IsTrue(cfg.RequireMinimalPermissions)
                             THEN checkPermissions(wfPath, Val(r.wf)) ELSE << >>),
                         None)
    IN Parsed(ReadLocalWorkflowFile(x.fs, wfPath))

\* ActionsCheck.checkWorkflowReference
checkWorkflowReference(x, wfConfig) ==
    LET parts == SplitN(wfConfig.Reference, 3)
        HavingContent(rc) ==
            LET xc == AfterRead(x, rc)
                actual == GetLocalFileContent(xc.fs, wfConfig.Path)
            IN IF ~IsNil(rc.err)
               THEN Checked(xc, << >>,
                            Some(Wrap("check", << "failed", " ", "to", " ", "fetch", " ",
                                                  "reference", " ", "workflow" >>, Val(rc.err))))
               ELSE IF ~IsNil(actual.err) THEN Checked(xc, << >>, actual.err)
               ELSE IF ~yamlEqual(HydrateTemplate(Val(rc.val)), Val(actual.val))
               THEN Checked(xc, << ActionsIssue(<< "Workflow", " ", "'" >> \o wfConfig.Path
                                                \o << "'", " ", "does", " ", "not", " ", "match",
                                                      " ", "reference", " ", "'" >>
                                                \o wfConfig.Reference \o << "'" >>,
                                                TRUE,
                                                Data(wfConfig.Path, wfConfig.Reference, "", "")) >>,
                            None)
               ELSE Checked(xc, << >>, None)
    IN IF Len(parts) < 3
       THEN Checked(x, << >>,
                    Some(PlainError("check", << "invalid", " ", "reference", " ", "format", ":",
                                                " " >> \o wfConfig.Reference
                                             \o << " ", "(expected", " ", "owner/repo/path)" >>)))
       ELSE HavingContent(GetRemoteFileContent(x.cache, x.live, parts[1], parts[2], parts[3],
                                               FaultFor(x)))

\* ActionsCheck.checkWorkflow
checkWorkflow(x, wfConfig) ==
    IF ~FileExists(x.fs, wfConfig.Path)
    THEN Checked(x, << ActionsIssue(<< "Required", " ", "workflow", " ", "'" >> \o wfConfig.Path
                                    \o << "'", " ", "is", " ", "missing" >>,
                                    wfConfig.Reference # << >>,
                                    Data(wfConfig.Path, wfConfig.Reference, "", "")) >>, None)
    ELSE IF wfConfig.Reference # << >> THEN checkWorkflowReference(x, wfConfig)
    ELSE Checked(x, << >>, None)

RECURSIVE checkWorkflows(_, _, _)
\* the loop of ActionsCheck.Run over the required workflows
checkWorkflows(x, wfConfigs, issues) ==
    IF wfConfigs = << >> THEN Checked(x, issues, None)
    ELSE LET HavingOne(one) ==
                 IF ~IsNil(one.err) THEN Checked(one.x, << >>, one.err)
                 ELSE checkWorkflows(one.x, Tail(wfConfigs), issues \o one.issues)
         IN HavingOne(checkWorkflow(x, wfConfigs[1]))

RECURSIVE checkAllRules(_, _, _, _)
\* the loop of ActionsCheck.Run over the workflow files
checkAllRules(x, cfg, wfPaths, issues) ==
    IF wfPaths = << >> THEN Checked(x, issues, None)
    ELSE LET HavingOne(one) ==
                 IF ~IsNil(one.err) THEN Checked(one.x, << >>, one.err)
                 ELSE checkAllRules(one.x, cfg, Tail(wfPaths), issues \o one.issues)
         IN HavingOne(checkWorkflowRules(x, cfg, wfPaths[1]))

\* ActionsCheck.Run, cfg the option of the ActionsConfig
ActionsCheck(x, cfg) ==
    LET HavingRequired(r) ==
            IF ~IsNil(r.err) THEN r
            ELSE checkAllRules(r.x, Val(cfg), findWorkflowFiles(r.x.fs), r.issues)
    IN IF IsNil(cfg) THEN Checked(x, << >>, None)
       ELSE HavingRequired(checkWorkflows(x, Items(Val(cfg).RequiredWorkflows), << >>))

(***************************************************************************)
(* fix: the fixers and the orchestrator.  Fix returns [x, result]: the     *)
(* context after it and the Result [Issue, Fixed, Error].                  *)
(***************************************************************************)
successResult(x, issue) == [x |-> x, result |-> [Issue |-> issue, Fixed |-> TRUE, Error |-> None]]
failedResult(x, issue, err) ==
    [x |-> x, result |-> [Issue |-> issue, Fixed |-> FALSE, Error |-> Some(err)]]

\* a nil pointer is dereferenced: the process panics and no Result is made
NilDereference ==
    PlainError("panic", << "invalid", " ", "memory", " ", "address", " ", "or", " ", "nil", " ",
                           "pointer", " ", "dereference" >>)

SpecialSettings == { "actions_approve_prs", "dependabot_alerts", "dependabot_security_updates" }
ToggleSettings == { "issues", "wiki", "projects", "discussions" }
MergeSettings ==
    { "merge_commit", "squash_merge", "rebase_merge", "auto_merge", "delete_branch_on_merge",
      "update_branch" }

\* the RepoUpdateRequest that SettingsFixer.Fix builds for a setting
SettingRequest(s, setting) ==
    CASE setting = "issues" -> [RepoUpdateRequest0 EXCEPT !.HasIssues = s.Issues]
      [] setting = "wiki" -> [RepoUpdateRequest0 EXCEPT !.HasWiki = s.Wiki]
      [] setting = "projects" -> [RepoUpdateRequest0 EXCEPT !.HasProjects = s.Projects]
      [] setting = "discussions" -> [RepoUpdateRequest0 EXCEPT !.HasDiscussions = s.Discussions]
      [] setting = "merge_commit" ->
           [RepoUpdateRequest0 EXCEPT !.AllowMergeCommit = Val(s.Merge).AllowMergeCommit]
      [] setting = "squash_merge" ->
           [RepoUpdateRequest0 EXCEPT !.AllowSquashMerge = Val(s.Merge).AllowSquashMerge]
      [] setting = "rebase_merge" ->
           [RepoUpdateRequest0 EXCEPT !.AllowRebaseMerge = Val(s.Merge).AllowRebaseMerge]
      [] setting = "auto_merge" ->
           [RepoUpdateRequest0 EXCEPT !.AllowAutoMerge = Val(s.Merge).AllowAutoMerge]
      [] setting = "delete_branch_on_merge" ->
           [RepoUpdateRequest0 EXCEPT !.DeleteBranchOnMerge = Val(s.Merge).DeleteBranchOnMerge]
      [] setting = "update_branch" ->
           [RepoUpdateRequest0 EXCEPT
              !.AllowUpdateBranch = Val(s.Merge).AlwaysSuggestUpdatingPullRequestBranches]

\* a fixer's write e, failing with the prefix or succeeding
Written(x, issue, e, prefix) ==
    IF ~IsNil(e.err) THEN failedResult(AfterWrite(x, e), issue, Wrap("fix", prefix, Val(e.err)))
    ELSE successResult(AfterWrite(x, e), issue)

fixActionsApprove(x, s, issue) ==
    IF IsNil(s.AllowActionsToApprovePRs)
    THEN failedResult(x, issue, PlainError("fix", << "allow_actions_to_approve_prs", " ", "not",
                                                     " ", "configured" >>))
    ELSE Written(x, issue,
                 UpdateWorkflowPermissions(x.live, Val(s.AllowActionsToApprovePRs), FaultFor(x)),
                 << "failed", " ", "to", " ", "update", " ", "workflow", " ", "permissions" >>)

fixDependabotAlerts(x, s, issue) ==
    IF IsNil(s.Dependabot) \/ IsNil(Val(s.Dependabot).Alerts)
    THEN failedResult(x, issue, PlainError("fix", << "dependabot", " ", "alerts", " ", "not", " ",
                                                     "configured" >>))
    ELSE Written(x, issue,
                 IF Val(Val(s.Dependabot).Alerts)
                 THEN EnableVulnerabilityAlerts(x.live, FaultFor(x))
                 ELSE DisableVulnerabilityAlerts(x.live, FaultFor(x)),
                 << "failed", " ", "to", " ", "update", " ", "vulnerability", " ", "alerts" >>)

fixDependabotSecurityUpdates(x, s, issue) ==
    IF IsNil(s.Dependabot) \/ IsNil(Val(s.Dependabot).SecurityUpdates)
    THEN failedResult(x, issue, PlainError("fix", << "dependabot", " ", "security", " ", "updates",
                                                     " ", "not", " ", "configured" >>))
    ELSE Written(x, issue,
                 IF Val(Val(s.Dependabot).SecurityUpdates)
                 THEN EnableAutomatedSecurityFixes(x.live, FaultFor(x))
                 ELSE DisableAutomatedSecurityFixes(x.live, FaultFor(x)),
                 << "failed", " ", "to", " ", "update", " ", "automated", " ", "security", " ",
                    "fixes" >>)

\* SettingsFixer.Fix, cfg the option of the SettingsConfig
SettingsFixer(x, cfg, issue) ==
    LET setting == issue.Data.setting
        s == Val(cfg)
        known == SpecialSettings \cup ToggleSettings \cup MergeSettings
    IN IF setting = ""
       THEN failedResult(x, issue, PlainError("fix", << "issue", " ", "data", " ", "missing", " ",
                                                        "setting" >>))
       ELSE IF setting \notin known
       THEN failedResult(x, issue, PlainError("fix", << "unknown", " ", "setting", ":", " ",
                                                        setting >>))
       ELSE IF IsNil(cfg) THEN failedResult(x, issue, NilDereference)
       ELSE IF setting = "actions_approve_prs" THEN fixActionsApprove(x, s, issue)
       ELSE IF setting = "dependabot_alerts" THEN fixDependabotAlerts(x, s, issue)
       ELSE IF setting = "dependabot_security_updates" THEN fixDependabotSecurityUpdates(x, s, issue)
       ELSE IF setting \in MergeSettings /\ IsNil(s.Merge)
       THEN failedResult(x, issue, NilDereference)
       ELSE Written(x, issue, UpdateRepository(x.live, SettingRequest(s, setting), FaultFor(x)),
                    << "failed", " ", "to", " ", "update", " ", "repository" >>)

\* the first config of the list whose field has the value: its index, 0 when none
FindConfig(cfgs, field, value) ==
    LET at == { i \in 1..LenOf(cfgs) : Items(cfgs)[i][field] = value }
    IN IF at = {} THEN 0 ELSE CHOOSE i \in at : \A j \in at : i <= j

\* RulesetsFixer.Fix, cfgs the list of RulesetConfig
RulesetsFixer(x, cfgs, issue) ==
    LET rulesetName == issue.Data.ruleset_name
        at == FindConfig(cfgs, "Name", rulesetName)
        rc == Items(cfgs)[at]
        HavingRulesets(xf, rf, rl) ==
            LET xl == AfterRead(xf, rl)
                rulesetID == FindRuleset(Val(rl.val), rc.Name)
                req == buildRulesetRequest(rc.Name, Val(rf.val))
            IN IF ~IsNil(rl.err)
               THEN failedResult(xl, issue, Wrap("fix", << "failed", " ", "to", " ", "fetch", " ",
                                                           "rulesets" >>, Val(rl.err)))
               ELSE IF rulesetID = 0
               THEN Written(xl, issue, CreateRuleset(xl.live, req, FaultFor(xl)),
                            << "failed", " ", "to", " ", "create", " ", "ruleset" >>)
               ELSE Written(xl, issue, UpdateRuleset(xl.live, rulesetID, req, FaultFor(xl)),
                            << "failed", " ", "to", " ", "update", " ", "ruleset" >>)
        HavingReference(rf) ==
            LET xf == AfterRead(x, rf)
            IN IF ~IsNil(rf.err)
               THEN failedResult(xf, issue, Wrap("fix", << "failed", " ", "to", " ", "fetch", " ",
                                                           "reference", " ", "ruleset" >>,
                                                 Val(rf.err)))
               ELSE HavingRulesets(xf, rf, GetRulesets(xf.cache, xf.live, FaultFor(xf)))
    IN IF rulesetName = ""
       THEN failedResult(x, issue, PlainError("fix", << "issue", " ", "data", " ", "missing", " ",
                                                        "ruleset_name" >>))
       ELSE IF at = 0
       THEN failedResult(x, issue, PlainError("fix", << "no", " ", "config", " ", "found", " ",
                                                        "for", " ", "ruleset", " ", "'",
                                                        rulesetName, "'" >>))
       ELSE IF rc.Reference = << >>
       THEN failedResult(x, issue, PlainError("fix", << "ruleset", " ", "'", rulesetName, "'",
                                                        " ", "has", " ", "no", " ", "reference",
                                                        " ", "specified" >>))
       ELSE HavingReference(FetchReferenceRuleset(x.cache, x.live, x.fs, rc.Reference,
                                                  FaultFor(x)))

\* a fixer's WriteFile of the content to the path
FileWritten(x, issue, path, content, prefix) ==
    LET w == WriteFile(x.fs, path, content)
    IN IF ~IsNil(w.err) THEN failedResult(x, issue, Wrap("fix", prefix, Val(w.err)))
       ELSE successResult([x EXCEPT !.fs = w.fs], issue)

\* FilesFixer.Fix, cfgs the list of FileConfig
FilesFixer(x, cfgs, issue) ==
    LET fileName == issue.Data.file_name
        at == FindConfig(cfgs, "Name", fileName)
        fc == Items(cfgs)[at]
        HavingReference(rf) ==
            IF ~IsNil(rf.err)
            THEN failedResult(AfterRead(x, rf), issue,
                              Wrap("fix", << "failed", " ", "to", " ", "fetch", " ", "reference",
                                             " ", "file" >>, Val(rf.err)))
            ELSE FileWritten(AfterRead(x, rf), issue, fc.Name, HydrateTemplate(Val(rf.val)),
                             << "failed", " ", "to", " ", "write", " ", "file" >>)
    IN IF fileName = << >>
       THEN failedResult(x, issue, PlainError("fix", << "issue", " ", "data", " ", "missing", " ",
                                                        "file_name" >>))
       ELSE IF at = 0
       THEN failedResult(x, issue, PlainError("fix", << "no", " ", "config", " ", "found", " ",
                                                        "for", " ", "file", " ", "'" >>
                                                     \o fileName \o << "'" >>))
       ELSE IF fc.Reference = << >>
       THEN failedResult(x, issue, PlainError("fix", << "file", " ", "'" >> \o fileName
                                                     \o << "'", " ", "has", " ", "no", " ",
                                                           "reference", " ", "specified" >>))
       ELSE HavingReference(ResolveReferenceFile(x.cache, x.live, x.fs, fc.Reference,
                                                 FaultFor(x)))

\* ActionsFixer.fetchAndInterpolateReference: [x, val, err]
fetchAndInterpolateReference(x, reference) ==
    LET parts == SplitN(reference, 3)
        HavingRepository(xc, rc, rr) ==
            LET xr == AfterRead(xc, rr)
                a == ReplaceAll(Val(rc.val).tokens, "{{ .owner }}", ClientOwner)
                b == ReplaceAll(a, "{{.owner}}", ClientOwner)
                c == ReplaceAll(b, "{{ .repo }}", ClientRepo)
                d == ReplaceAll(c, "{{.repo}}", ClientRepo)
                e == ReplaceAll(d, "{{ .default_branch }}", Val(rr.val).DefaultBranch)
                f == ReplaceAll(e, "{{.default_branch}}", Val(rr.val).DefaultBranch)
            IN IF ~IsNil(rr.err) THEN [x |-> xr, val |-> None, err |-> rr.err]
               ELSE [x |-> xr, val |-> Some([Val(rc.val) EXCEPT !.tokens = f]), err |-> None]
        HavingContent(rc) ==
            LET xc == AfterRead(x, rc)
            IN IF ~IsNil(rc.err) THEN [x |-> xc, val |-> None, err |-> rc.err]
               ELSE HavingRepository(xc, rc, GetRepository(xc.cache, xc.live, FaultFor(xc)))
    IN IF Len(parts) < 3
       THEN [x |-> x, val |-> None,
             err |-> Some(PlainError("fix", << "invalid", " ", "reference", " ", "format", ":",
                                               " " >> \o reference))]
       ELSE HavingContent(GetRemoteFileContent(x.cache, x.live, parts[1], parts[2], parts[3],
                                               FaultFor(x)))

\* ActionsFixer.Fix, cfg the option of the ActionsConfig
ActionsFixer(x, cfg, issue) ==
    LET workflowPath == issue.Data.file_name
        at == FindConfig(Val(cfg).RequiredWorkflows, "Path", workflowPath)
        wf == Items(Val(cfg).RequiredWorkflows)[at]
        HavingContent(got) ==
            IF ~IsNil(got.err)
            THEN failedResult(got.x, issue, Wrap("fix", << "failed", " ", "to", " ", "fetch", " ",
                                                           "reference" >>, Val(got.err)))
            ELSE FileWritten(got.x, issue, workflowPath, Val(got.val),
                             << "failed", " ", "to", " ", "write", " ", "workflow", " ",
                                "file" >>)
    IN IF workflowPath = << >>
       THEN failedResult(x, issue, PlainError("fix", << "issue", " ", "data", " ", "missing", " ",
                                                        "file_name" >>))
       ELSE IF IsNil(cfg) THEN failedResult(x, issue, NilDereference)
       ELSE IF at = 0 \/ wf.Reference = << >>
       THEN failedResult(x, issue, PlainError("fix", << "no", " ", "reference", " ", "specified",
                                                        " ", "for", " ", "workflow", " " >>
                                                     \o workflowPath))
       ELSE HavingContent(fetchAndInterpolateReference(x, wf.Reference))

NotFixable == PlainError("fix", << "issue", " ", "is", " ", "not", " ", "fixable" >>)
NoFixer(type) ==
    PlainError("fix", << "no", " ", "fixer", " ", "for", " ", "check", " ", "type", " ", "'",
                         type, "'" >>)

\* a fixer that dereferenced a nil pointer made no Result: the process is gone
Panicked(one) == ~IsNil(one.result.Error) /\ Val(one.result.Error).kind = "panic"

\* NewOrchestrator: the check types a fixer is registered for
Fixers == { "settings", "actions", "rulesets", "files" }

RECURSIVE OrchestratorFix(_, _, _)
\* Orchestrator.Fix over the issues, for the configuration checks:
\* [x, results, invoked, crashed].  invoked lists, issue by issue, the
\* fixers whose Fix was called for it; after a panic nothing is returned.
OrchestratorFix(x, checks, issues) ==
    IF issues = << >>
    THEN [x |-> x, results |-> << >>, invoked |-> << >>, crashed |-> FALSE]
    ELSE LET issue == issues[1]
             by == IF issue.Fixable /\ issue.Type \in Fixers THEN << issue.Type >> ELSE << >>
             Others(one) ==
                 LET rest == OrchestratorFix(one.x, checks, Tail(issues))
                 IN IF Panicked(one)
                    THEN [x |-> one.x, results |-> << >>, invoked |-> << by >>, crashed |-> TRUE]
                    ELSE IF rest.crashed
                    THEN [rest EXCEPT !.invoked = << by >> \o @]
                    ELSE [x |-> rest.x, results |-> << one.result >> \o rest.results,
                          invoked |-> << by >> \o rest.invoked, crashed |-> FALSE]
         IN Others(CASE ~issue.Fixable -> failedResult(x, issue, NotFixable)
                     [] issue.Fixable /\ issue.Type = "settings" ->
                          SettingsFixer(x, checks.Settings, issue)
                     [] issue.Fixable /\ issue.Type = "actions" ->
                          ActionsFixer(x, checks.Actions, issue)
                     [] issue.Fixable /\ issue.Type = "rulesets" ->
                          RulesetsFixer(x, checks.Rulesets, issue)
                     [] issue.Fixable /\ issue.Type = "files" ->
                          FilesFixer(x, checks.Files, issue)
                     [] OTHER -> failedResult(x, issue, NoFixer(issue.Type)))

\* NewRunner: the checks in the order they are registered, each [kind, cfg].
\* The checks of the rulesets and of the files are given the address of the
\* variable of a range loop: each its own element where an iteration has
\* its own variable (aliased is FALSE: Go 1.22 and later), all of them the
\* last element where the loop has one variable (aliased is TRUE).
NewRunner(checks, aliased) ==
    LET each(kind, l) ==
            [i \in 1..LenOf(l) |->
                [kind |-> kind, cfg |-> Some(Items(l)[IF aliased THEN LenOf(l) ELSE i])]]
    IN << [kind |-> "settings", cfg |-> checks.Settings],
          [kind |-> "actions", cfg |-> checks.Actions] >>
       \o each("rulesets", checks.Rulesets) \o each("files", checks.Files)

\* Check.Name
CheckName(check) ==
    CASE check.kind = "settings" -> << "settings" >>
      [] check.kind = "actions" -> << "actions" >>
      [] check.kind = "rulesets" -> << "rulesets(", Val(check.cfg).Name, ")" >>
      [] check.kind = "files" -> << "files(" >> \o Val(check.cfg).Name \o << ")" >>

\* Check.Run
RunCheck(x, check) ==
    CASE check.kind = "settings" -> SettingsCheck(x, check.cfg)
      [] check.kind = "actions" -> ActionsCheck(x, check.cfg)
      [] check.kind = "rulesets" -> RulesetsCheck(x, check.cfg)
      [] check.kind = "files" -> FilesCheck(x, check.cfg)

\* a check that Runner.Run has run: its name and what its Run returned
\* and how many requests it made
Ran(check, x, one) ==
    [name |-> CheckName(check), err |-> one.err, issues |-> one.issues,
     reads |-> Len(one.x.reqs) - Len(x.reqs)]

RECURSIVE RunnerRunOn(_, _, _, _, _)
\* a runner that goes on to the next check after a failure
RunnerRunOn(x, checks, skipMap, allIssues, visited) ==
    IF checks = << >>
    THEN LET failed == { i \in 1..Len(visited) : ~IsNil(visited[i].err) }
         IN IF failed = {} THEN [x |-> x, issues |-> allIssues, err |-> None, ran |-> visited]
            ELSE [x |-> x, issues |-> << >>, ran |-> visited,
                  err |-> visited[CHOOSE i \in failed : \A j \in failed : i <= j].err]
    ELSE IF CheckName(checks[1]) \in skipMap
    THEN RunnerRunOn(x, Tail(checks), skipMap, allIssues, visited)
    ELSE LET HavingRun(one) ==
                 RunnerRunOn(one.x, Tail(checks), skipMap, allIssues \o one.issues,
                             Append(visited, Ran(checks[1], x, one)))
         IN HavingRun(RunCheck(x, checks[1]))

RECURSIVE RunnerRun(_, _, _, _, _)
\* Runner.Run over the checks not yet visited: [x, issues, err, ran], ran
\* the checks whose Run was called, in order
RunnerRun(x, checks, skipMap, allIssues, visited) ==
    IF checks = << >> THEN [x |-> x, issues |-> allIssues, err |-> None, ran |-> visited]
    ELSE IF CheckName(checks[1]) \in skipMap
    THEN RunnerRun(x, Tail(checks), skipMap, allIssues, visited)
    ELSE LET HavingRun(one) ==
                 IF ~IsNil(one.err)
                 THEN [x |-> one.x, issues |-> << >>, err |-> one.err,
                       ran |-> Append(visited, Ran(checks[1], x, one))]
                 ELSE RunnerRun(one.x, Tail(checks), skipMap, allIssues \o one.issues,
                                Append(visited, Ran(checks[1], x, one)))
         IN HavingRun(RunCheck(x, checks[1]))

\* NewRunner and Runner.Run as runLint calls them
RunChecks(x, checks, aliased, skipMap) ==
    RunnerRun(x, NewRunner(checks, aliased), skipMap, << >>, << >>)

(***************************************************************************)
(* A lint-and-fix session: the checks are run, one issue (or all of them)  *)
(* is handed to the orchestrator, the same issue is handed to it again,    *)
(* and the checks are run once more, by the same client or by a new one.   *)
(***************************************************************************)
MaxFaultAt == 4

Settings0 ==
    [Issues |-> None, Wiki |-> None, Projects |-> None, Discussions |-> None,
     AllowActionsToApprovePRs |-> None, PullRequestCreationPolicy |-> "",
     DefaultBranch |-> "", Merge |-> None, Dependabot |-> None]
Merge0 ==
    [AllowMergeCommit |-> None, AllowSquashMerge |-> None, AllowRebaseMerge |-> None,
     AllowAutoMerge |-> None, DeleteBranchOnMerge |-> None,
     AlwaysSuggestUpdatingPullRequestBranches |-> None]

SettingsPolicies ==
    { [Settings0 EXCEPT ![f] = Some(b)] :
        f \in { "Issues", "Wiki", "Projects", "Discussions", "AllowActionsToApprovePRs" },
        b \in BOOLEAN }
    \cup { [Settings0 EXCEPT !.Merge = Some([Merge0 EXCEPT ![f] = Some(b)])] :
             f \in DOMAIN Merge0, b \in BOOLEAN }
    \cup { [Settings0 EXCEPT !.PullRequestCreationPolicy = p] : p \in { "all", "collaborators" } }
    \cup { [Settings0 EXCEPT !.DefaultBranch = p] : p \in { "main", "release", "*", "[" } }
    \cup { [Settings0 EXCEPT !.Dependabot = Some([Alerts |-> a, SecurityUpdates |-> s])] :
             a \in { None, Some(TRUE), Some(FALSE) }, s \in { None, Some(TRUE), Some(FALSE) } }
    \cup { [Settings0 EXCEPT !.Issues = Some(FALSE), !.DefaultBranch = "release",
                             !.Merge = Some([Merge0 EXCEPT !.AllowSquashMerge = Some(FALSE)])] }

MainConfig == [Name |-> "main", Reference |-> RemoteReference]
TagsConfig == [Name |-> "tags", Reference |-> PathReference]
LicenseConfig == [Name |-> << "LICENSE" >>, Reference |-> BareReference]

NoticeConfig == [Name |-> << "NOTICE" >>, Reference |-> BareReference]

\* the workflows of the working directory and the template they are held to
CiPath == WorkflowDir \o << "/" >> \o WorkflowNames[1]
NotesPath == WorkflowDir \o << "/" >> \o WorkflowNames[2]
ReleasePath == WorkflowDir \o << "/" >> \o WorkflowNames[3]
WorkflowReference == << "acme", "/", "acme", "/", "workflows", "/", "ci.yml" >>
WorkflowFile == << << "acme" >>, << "acme" >>, << "workflows", "/", "ci.yml" >> >>
FixPaths == LocalPaths \cup { << "NOTICE" >>, CiPath, NotesPath, ReleasePath }

PinnedUse ==
    [action |-> << "acme", "/", "deploy" >>, version |-> [len |-> 40, hex |-> TRUE, text |-> "3f2a9c"]]
TaggedUse ==
    [action |-> << "acme", "/", "deploy" >>, version |-> [len |-> 2, hex |-> FALSE, text |-> "v1"]]
FirstPartyUse ==
    [action |-> << "actions", "/", "checkout" >>, version |-> [len |-> 2, hex |-> FALSE, text |-> "v4"]]
WordUse ==
    [action |-> << "acme", "/", "deploy" >>, version |-> [len |-> 40, hex |-> FALSE, text |-> "release"]]

Job(minutes, permissions) ==
    [Name |-> "build", TimeoutMinutes |-> minutes, Permissions |-> permissions]
GoodWorkflow ==
    WorkflowBytes(<< "permissions:", " ", "read", "\n", "timeout-minutes:", " ", "10", "\n" >>,
                  Some([Permissions |-> Some("read"), Jobs |-> << Job(10, None) >>]),
                  << FirstPartyUse, PinnedUse >>)
\* the same document laid out otherwise
IndentedWorkflow ==
    WorkflowBytes(<< "permissions:", "\t", "read", "\n", "\n", "timeout-minutes:", " ", "10" >>,
                  Some([Permissions |-> Some("read"), Jobs |-> << Job(10, None) >>]),
                  << FirstPartyUse, PinnedUse >>)
LooseWorkflow ==
    WorkflowBytes(<< "uses:", " ", "acme/deploy@v1", "\n" >>,
                  Some([Permissions |-> None, Jobs |-> << Job(0, None) >>]),
                  << TaggedUse, WordUse >>)
SlowWorkflow ==
    WorkflowBytes(<< "timeout-minutes:", " ", "90", "\n" >>,
                  Some([Permissions |-> None, Jobs |-> << Job(90, Some("read")) >>]), << >>)
BrokenWorkflow == WorkflowBytes(<< "jobs:", " ", "[" >>, None, << >>)
\* reference workflows that use the template variables
OwnerWorkflow ==
    WorkflowBytes(<< "permissions:", " ", "read", "\n", "name:", " ", "{{.owner}}", "/", "{{ .repo }}",
                     "\n" >>,
                  Some([Permissions |-> Some("read"), Jobs |-> << Job(10, None) >>]),
                  << FirstPartyUse, PinnedUse >>)
BranchWorkflow ==
    WorkflowBytes(<< "permissions:", " ", "read", "\n", "branches:", " ", "{{.default_branch}}",
                     "\n" >>,
                  Some([Permissions |-> Some("read"), Jobs |-> << Job(10, None) >>]),
                  << FirstPartyUse, PinnedUse >>)

Actions0 ==
    [RequirePinnedVersions |-> None, RequireTimeout |-> None, MaxTimeoutMinutes |-> None,
     RequireMinimalPermissions |-> None, RequiredWorkflows |-> None]
CiConfig == [Path |-> CiPath, Reference |-> WorkflowReference]

ActionsPolicies ==
    { Actions0 }
    \cup { [Actions0 EXCEPT ![f] = Some(b)] :
             f \in { "RequirePinnedVersions", "RequireTimeout", "RequireMinimalPermissions" },
             b \in BOOLEAN }
    \cup { [Actions0 EXCEPT !.MaxTimeoutMinutes = Some(30)],
           [Actions0 EXCEPT !.RequireTimeout = Some(TRUE), !.MaxTimeoutMinutes = Some(30)] }
    \cup { [Actions0 EXCEPT !.RequiredWorkflows = Some(<< [CiConfig EXCEPT !.Reference = r] >>)] :
             r \in { WorkflowReference, << >>, PathReference } }

\* the configurations of a session on one kind of resource
FixPolicies(family) ==
    CASE family = "settings" ->
           { Document(Some(s), None, None, None) : s \in SettingsPolicies }
      [] family = "actions" ->
           { Document(None, Some(a), None, None) : a \in ActionsPolicies }
      [] family = "rulesets" ->
           { Document(None, None, Some(l), None) :
               l \in { << MainConfig >>, << TagsConfig >>, << MainConfig, TagsConfig >>,
                       << [MainConfig EXCEPT !.Reference = << >>] >> } }
      [] family = "files" ->
           { Document(None, None, None, Some(l)) :
               l \in { << LicenseConfig >>,
                       << [LicenseConfig EXCEPT !.Reference = RemoteReference] >> } }
      [] family = "all" ->
           { Document(Some([Settings0 EXCEPT !.Issues = Some(FALSE)]),
                      Some([Actions0 EXCEPT
                              !.RequiredWorkflows = Some(<< [CiConfig EXCEPT !.Reference = << >>] >>)]),
                      Some(<< MainConfig, TagsConfig >>),
                      Some(<< LicenseConfig, NoticeConfig >>)),
             Document(None, None, None, None) }

StoredAs(id, name, ruleset) == StoreRuleset(id, EncodeRulesetRequest(buildRulesetRequest(name, ruleset)))

\* the worlds such a session starts in: [live, fs]
FixWorlds(family) ==
    CASE family = "settings" ->
           { [live |-> [Live0 EXCEPT !.repo.Archived = a], fs |-> Fs0] : a \in BOOLEAN }
      [] family = "actions" ->
           { [live |-> [Live0 EXCEPT !.files = [f \in RemoteFiles \cup { WorkflowFile } |->
                                                 IF f = WorkflowFile THEN o ELSE None]],
              fs |-> [p \in FixPaths |->
                        IF p = CiPath THEN c ELSE IF p = ReleasePath THEN r
                        ELSE IF p = NotesPath THEN Some(LocalFile("rw", BrokenWorkflow))
                        ELSE None]] :
               o \in { None, Some(Base64File(GoodWorkflow)), Some(Base64File(OwnerWorkflow)),
                       Some(Base64File(BranchWorkflow)) },
               c \in { None, Some(LocalFile("rw", GoodWorkflow)),
                       Some(LocalFile("rw", IndentedWorkflow)),
                       Some(LocalFile("rw", LooseWorkflow)),
                       Some(LocalFile("rw", SlowWorkflow)),
                       Some(LocalFile("rw", BrokenWorkflow)),
                       Some(LocalFile("none", GoodWorkflow)) },
               r \in { None, Some(LocalFile("rw", LooseWorkflow)) } }
      [] family = "rulesets" ->
           { [live |-> [Live0 EXCEPT !.rulesets = l, !.files[OwnerFile] = o],
              fs |-> [Fs0 EXCEPT ![PathReference] = p]] :
               l \in { << >>, << StoredAs(1, "main", TagsRuleset) >>,
                       << StoredAs(1, "main", MainRuleset) >> },
               o \in { None, Some(Base64File(MainJSON)) },
               p \in { None, Some(LocalFile("rw", TagsJSON)) } }
      [] family = "files" ->
           { [live |-> [Live0 EXCEPT !.files[OwnerFile] = o],
              fs |-> [Fs0 EXCEPT ![BareReference] = t, ![<< "LICENSE" >>] = f]] :
               o \in { None, Some(Base64File(LicenseText)) },
               t \in { None, Some(LocalFile("rw", LicenseText)) },
               f \in { None,
                       Some(LocalFile("rw", [HydrateTemplate(LicenseText) EXCEPT !.tokens = @ \o << "\n" >>])),
                       Some(LocalFile("rw", LicenseText)),
                       Some(LocalFile("none", LicenseText)),
                       Some(LocalFile("none", HydrateTemplate(LicenseText))) } }
      [] family = "all" ->
           { [live |-> [Live0 EXCEPT !.files[OwnerFile] = Some(Base64File(MainJSON))],
              fs |-> [p \in FixPaths |->
                        IF p = PathReference THEN Some(LocalFile("rw", TagsJSON))
                        ELSE IF p = BareReference THEN Some(LocalFile("rw", LicenseText))
                        ELSE None]] }

FixFamilies == { "settings", "actions", "rulesets", "files", "all" }

FaultPlans ==
    { [at |-> 0, err |-> ServerError] }
    \cup { [at |-> k, err |-> e] : k \in 1..MaxFaultAt, e \in Faults }

\* the skip lists of the command line
SkipSets ==
    { {} } \cup { { n } : n \in { << "settings" >>, << "actions" >>,
                                  << "rulesets(", "main", ")" >>, << "rulesets(", "tags", ")" >>,
                                  << "files(", "LICENSE", ")" >>, << "files(", "NOTICE", ")" >> } }
    \cup { { << "settings" >>, << "rulesets(", "tags", ")" >> } }

\* Issues made by hand or kept from an earlier run: what an orchestrator can
\* be handed besides the issues of the run before it.
Handed(type, fixable, data) ==
    Issue(type, << type >>, << "kept", " ", "from", " ", "an", " ", "earlier", " ", "run" >>,
          fixable, data)
HandedIssues ==
    { Handed("settings", TRUE, Data(<< >>, << >>, "", s)) :
        s \in { "", "nonexistent_setting", "issues", "actions_approve_prs",
                "pull_request_creation_policy" } \cup MergeSettings }
    \cup { Handed("rulesets", TRUE, Data(<< >>, << >>, n, "")) : n \in { "", "main", "gone" } }
    \cup { Handed("files", TRUE, Data(n, << >>, "", "")) :
             n \in { << >>, << "LICENSE" >>, << "GONE" >> } }
    \cup { Handed("actions", TRUE, Data(n, << >>, "", "")) : n \in { << >>, CiPath, NotesPath } }
    \cup { Handed("settings", FALSE, Data(<< >>, << >>, "", "issues")),
           Handed("labels", TRUE, NoData) }
HandedLists ==
    { << i >> : i \in HandedIssues }
    \cup { << Handed("settings", FALSE, Data(<< >>, << >>, "", "issues")),
              Handed("labels", TRUE, NoData),
              Handed("files", TRUE, Data(<< "LICENSE" >>, << >>, "", "")),
              Handed("rulesets", TRUE, Data(<< >>, << >>, "gone", "")) >>,
           << Handed("files", TRUE, Data(<< "GONE" >>, << >>, "", "")),
              Handed("settings", TRUE, Data(<< >>, << >>, "", "merge_commit")),
              Handed("files", TRUE, Data(<< "LICENSE" >>, << >>, "", "")) >>,
           << Handed("settings", TRUE, Data(<< >>, << >>, "", "")),
              Handed("rulesets", TRUE, Data(<< >>, << >>, "gone", "")),
              Handed("files", TRUE, Data(<< "GONE" >>, << >>, "", "")) >> }

FixIdle ==
    /\ policy = None
    /\ found = << >>
    /\ picked = None
    /\ results = << >>
    /\ fpc = "idle"
    /\ clean = TRUE
    /\ shared = FALSE
    /\ skip = {}
    /\ ran = << >>
    /\ given = << >>
    /\ invoked = << >>

FixStart ==
    /\ ClientNew
    /\ op = Op("start", << >>)
    /\ found = << >>
    /\ picked = None
    /\ results = << >>
    /\ fpc = "start"
    /\ clean = TRUE
    /\ shared \in BOOLEAN
    /\ skip = {}
    /\ ran = << >>
    /\ given = << >>
    /\ invoked = << >>
    /\ \E family \in FixFamilies : \E p \in FixPolicies(family) : \E w \in FixWorlds(family) :
         /\ policy = Some(p)
         /\ live = w.live
         /\ fs = w.fs

\* what a step of the session leaves of the client: the context after it
StepLeaves(o, x, err, plan) ==
    /\ op' = o
    /\ cache' = x.cache
    /\ live' = x.live
    /\ fs' = x.fs
    /\ reqs' = x.reqs
    /\ ret' = [val |-> None, err |-> err]
    /\ clean' = (clean /\ plan.at = 0)
    /\ Len(x.live.rulesets) <= MaxRulesets
    /\ UNCHANGED << called, firstOk, again, policy, shared >>
    /\ UNCHANGED << mergeVars, retryVars, loadVars, lintVars, matchVars >>

\* what a call of Orchestrator.Fix leaves: its results, or none after a panic
FixLeaves(r, issues, before, after) ==
    /\ given' = before.given \o issues
    /\ invoked' = before.invoked \o r.invoked
    /\ results' = IF r.crashed THEN << >> ELSE before.results \o r.results
    /\ fpc' = IF r.crashed THEN (IF after = "fixed given" THEN "crashed given" ELSE "crashed")
               ELSE after
    /\ UNCHANGED << skip, ran >>

Afresh == [given |-> << >>, invoked |-> << >>, results |-> << >>]

\* runner.Run(ctx, skip) in runLint
FixRun ==
    /\ fpc = "start"
    /\ \E plan \in FaultPlans : \E sk \in SkipSets :
         \E r \in { RunChecks(Context(cache, live, fs, plan), Val(policy).Checks, shared, sk) } :
            /\ StepLeaves(Op("Run", << >>), r.x, r.err, plan)
            /\ found' = r.issues
            /\ skip' = sk
            /\ ran' = r.ran
            /\ fpc' = IF IsNil(r.err) THEN "checked" ELSE "failed"
            /\ UNCHANGED << picked, results, given, invoked >>

\* orchestrator.Fix(ctx, issues) in handleFix
FixAll ==
    /\ fpc = "checked"
    /\ found # << >>
    /\ \E plan \in FaultPlans :
         \E r \in { OrchestratorFix(Context(cache, live, fs, plan), Val(policy).Checks, found) } :
            /\ StepLeaves(Op("Fix", << >>), r.x, None, plan)
            /\ FixLeaves(r, found, Afresh, "fixed all")
            /\ UNCHANGED << found, picked >>

\* orchestrator.Fix for one of the issues
FixOne ==
    /\ fpc = "checked"
    /\ \E i \in 1..Len(found) : \E plan \in FaultPlans :
         \E r \in { OrchestratorFix(Context(cache, live, fs, plan), Val(policy).Checks,
                                     << found[i] >>) } :
            /\ StepLeaves(Op("Fix", << Digits(i) >>), r.x, None, plan)
            /\ picked' = Some(found[i])
            /\ FixLeaves(r, << found[i] >>, Afresh, "fixed")
            /\ UNCHANGED found

\* orchestrator.Fix for the same issue once more
FixAgain ==
    /\ fpc = "fixed"
    /\ \E plan \in FaultPlans :
         \E r \in { OrchestratorFix(Context(cache, live, fs, plan), Val(policy).Checks,
                                     << Val(picked) >>) } :
            /\ StepLeaves(Op("Fix", << << "again" >> >>), r.x, None, plan)
            /\ FixLeaves(r, << Val(picked) >>,
                         [given |-> given, invoked |-> invoked, results |-> results],
                         "fixed twice")
            /\ UNCHANGED << found, picked >>

\* orchestrator.Fix for issues that no run of this session has reported
FixGiven ==
    /\ fpc = "start"
    /\ \E issues \in HandedLists : \E plan \in FaultPlans :
         \E r \in { OrchestratorFix(Context(cache, live, fs, plan), Val(policy).Checks,
                                     issues) } :
            /\ StepLeaves(Op("Fix", << << "given" >> >>), r.x, None, plan)
            /\ FixLeaves(r, issues, Afresh, "fixed given")
            /\ UNCHANGED << found, picked >>

\* runner.Run after the fixes, by the client that made them (fresh is
\* FALSE) or by the client of a new run of the program
FixRecheck ==
    /\ fpc = "fixed twice"
    /\ \E fresh \in BOOLEAN : \E plan \in FaultPlans :
         \E r \in { RunChecks(Context(IF fresh THEN << >> ELSE cache, live, fs, plan),
                               Val(policy).Checks, shared, {}) } :
            /\ StepLeaves(Op("Run", << << "again" >> >>), r.x, r.err, plan)
            /\ found' = r.issues
            /\ skip' = {}
            /\ ran' = r.ran
            /\ fpc' = IF fresh THEN "rechecked by a new client" ELSE "rechecked"
            /\ UNCHANGED << picked, results, given, invoked >>

FixNext ==
    \/ FixRun
    \/ FixAll
    \/ FixOne
    \/ FixAgain
    \/ FixGiven
    \/ FixRecheck

(***************************************************************************)
(* What a document says about each scalar leaf: the option of its value,   *)
(* nil when the leaf or any object on the way to it is absent.             *)
(***************************************************************************)
StrOpt(s) == IF s = "" THEN None ELSE Some(s)
SettingsOf(d) == IF IsNil(d) THEN None ELSE Val(d).Checks.Settings
ActionsOf(d) == IF IsNil(d) THEN None ELSE Val(d).Checks.Actions
MergeOf(d) == IF IsNil(SettingsOf(d)) THEN None ELSE Val(SettingsOf(d)).Merge
DependabotOf(d) == IF IsNil(SettingsOf(d)) THEN None ELSE Val(SettingsOf(d)).Dependabot
RulesetsOf(d) == IF IsNil(d) THEN None ELSE Val(d).Checks.Rulesets
FilesOf(d) == IF IsNil(d) THEN None ELSE Val(d).Checks.Files
WorkflowsOf(d) == IF IsNil(ActionsOf(d)) THEN None ELSE Val(ActionsOf(d)).RequiredWorkflows

SettingsLeaves(d) ==
    LET s == SettingsOf(d) IN
    IF IsNil(s)
    THEN [issues |-> None, wiki |-> None, projects |-> None, discussions |-> None,
          allow_actions_to_approve_prs |-> None, default_branch |-> None]
    ELSE [issues |-> Val(s).Issues, wiki |-> Val(s).Wiki, projects |-> Val(s).Projects,
          discussions |-> Val(s).Discussions,
          allow_actions_to_approve_prs |-> Val(s).AllowActionsToApprovePRs,
          default_branch |-> StrOpt(Val(s).DefaultBranch)]

PolicyLeaf(d) ==
    IF IsNil(SettingsOf(d)) THEN None ELSE StrOpt(Val(SettingsOf(d)).PullRequestCreationPolicy)

MergeLeaves(d) ==
    LET m == MergeOf(d) IN
    IF IsNil(m)
    THEN [allow_merge_commit |-> None, allow_squash_merge |-> None,
          allow_rebase_merge |-> None, allow_auto_merge |-> None,
          delete_branch_on_merge |-> None,
          always_suggest_updating_pull_request_branches |-> None]
    ELSE [allow_merge_commit |-> Val(m).AllowMergeCommit,
          allow_squash_merge |-> Val(m).AllowSquashMerge,
          allow_rebase_merge |-> Val(m).AllowRebaseMerge,
          allow_auto_merge |-> Val(m).AllowAutoMerge,
          delete_branch_on_merge |-> Val(m).DeleteBranchOnMerge,
          always_suggest_updating_pull_request_branches |->
              Val(m).AlwaysSuggestUpdatingPullRequestBranches]

DependabotLeaves(d) ==
    LET b == DependabotOf(d) IN
    IF IsNil(b) THEN [alerts |-> None, security_updates |-> None]
    ELSE [alerts |-> Val(b).Alerts, security_updates |-> Val(b).SecurityUpdates]

ActionsLeaves(d) ==
    LET a == ActionsOf(d) IN
    IF IsNil(a)
    THEN [require_pinned_versions |-> None, require_timeout |-> None,
          max_timeout_minutes |-> None, require_minimal_permissions |-> None]
    ELSE [require_pinned_versions |-> Val(a).RequirePinnedVersions,
          require_timeout |-> Val(a).RequireTimeout,
          max_timeout_minutes |-> Val(a).MaxTimeoutMinutes,
          require_minimal_permissions |-> Val(a).RequireMinimalPermissions]

RepoWins(m, o, r) == m = IF ~IsNil(r) THEN r ELSE o

LeavesRepoWin(Leaves(_)) ==
    \A f \in DOMAIN Leaves(merged) :
        RepoWins(Leaves(merged)[f], Leaves(owner)[f], Leaves(repo)[f])

\* An absent object or document on one side: the other side's is the result.
Wholesale(Of(_)) ==
    /\ IsNil(Of(repo)) => Of(merged) = Of(owner)
    /\ IsNil(Of(owner)) => Of(merged) = Of(repo)

\* C1: after MergeConfigs(org, repo), every optional scalar leaf of the merged
\* document (the settings scalars including pull_request_creation_policy, every
\* merge.*, dependabot.* and actions.* scalar) is the repo value when the repo
\* document sets it and the org value otherwise; an object or a whole document
\* absent on one side is taken wholesale from the other side.
C1_ScalarsRepoWins ==
    mpc = "done" =>
        /\ LeavesRepoWin(SettingsLeaves)
        /\ RepoWins(PolicyLeaf(merged), PolicyLeaf(owner), PolicyLeaf(repo))
        /\ LeavesRepoWin(MergeLeaves)
        /\ LeavesRepoWin(DependabotLeaves)
        /\ LeavesRepoWin(ActionsLeaves)
        /\ IsNil(repo) => merged = owner
        /\ IsNil(owner) => merged = repo
        /\ Wholesale(SettingsOf) /\ Wholesale(MergeOf)
        /\ Wholesale(DependabotOf) /\ Wholesale(ActionsOf)

\* C2: after MergeConfigs(org, repo), each of the arrays rulesets, files and
\* actions.required_workflows is exactly the repo array whenever the repo array
\* is non-nil (also when it is empty or shorter than the org array), and the
\* org array only when the repo array is nil.
C2_ArraysReplaced ==
    mpc = "done" =>
        /\ RepoWins(RulesetsOf(merged), RulesetsOf(owner), RulesetsOf(repo))
        /\ RepoWins(FilesOf(merged), FilesOf(owner), FilesOf(repo))
        /\ RepoWins(WorkflowsOf(merged), WorkflowsOf(owner), WorkflowsOf(repo))

\* A merge in which the repo array is non-nil and shorter than the org array.
C2_Witness ==
    /\ mpc = "done"
    /\ ~IsNil(RulesetsOf(owner)) /\ ~IsNil(RulesetsOf(repo))
    /\ Len(Val(RulesetsOf(repo))) < Len(Val(RulesetsOf(owner)))
    /\ ~IsNil(WorkflowsOf(owner)) /\ WorkflowsOf(repo) = Some(<< >>)
    /\ RulesetsOf(merged) = RulesetsOf(repo)

(***************************************************************************)
(* Properties of doWithRetry.                                              *)
(***************************************************************************)
RECURSIVE SumSeq(_)
SumSeq(q) == IF q = << >> THEN 0 ELSE q[1] + SumSeq(Tail(q))

Succeeded(o) == o = None
RateLimited(o) == o # None /\ isRateLimitError(Val(o))
OtherError(o) == o # None /\ ~isRateLimitError(Val(o))

\* C6: when the transport answers the first two calls of a request with a
\* rate-limit error and the third with success, doWithRetry has returned nil
\* after exactly three transport calls and exactly two sleeps, of initialBackoff
\* and then 2 * initialBackoff.
C6_TwoRateLimitsThenSuccess ==
    (/\ Len(outcomes) >= 3
     /\ RateLimited(outcomes[1]) /\ RateLimited(outcomes[2]) /\ Succeeded(outcomes[3]))
    => /\ rpc = "done"
       /\ rret = None
       /\ Len(outcomes) = 3
       /\ sleeps = << initialBackoff, 2 * initialBackoff >>

C6_Witness ==
    /\ rpc = "done" /\ method = "PUT"
    /\ Len(outcomes) = 3
    /\ outcomes[1] = Some(Forbidden) /\ outcomes[2] = Some(PrimaryRateLimit)
    /\ Succeeded(outcomes[3])

\* C7: at every point of every execution of doWithRetry the time slept so far
\* is at most maxBackoffDuration; the first sleep is initialBackoff, each later
\* sleep is twice the one before it or else exactly the budget that remained,
\* and every sleep is longer than zero.
C7_BackoffWithinBudget ==
    /\ SumSeq(sleeps) <= maxBackoffDuration
    /\ totalWait = SumSeq(sleeps)
    /\ \A i \in 1..Len(sleeps) : sleeps[i] > 0
    /\ Len(sleeps) >= 1 => sleeps[1] = initialBackoff
    /\ \A i \in 2..Len(sleeps) :
        \/ sleeps[i] = 2 * sleeps[i - 1]
        \/ /\ sleeps[i] = maxBackoffDuration - SumSeq(SubSeq(sleeps, 1, i - 1))
           /\ sleeps[i] < 2 * sleeps[i - 1]

\* the budget is used up and the last sleep was a truncated one
C7_Witness ==
    /\ SumSeq(sleeps) = maxBackoffDuration
    /\ Len(sleeps) >= 2
    /\ sleeps[Len(sleeps)] < 2 * sleeps[Len(sleeps) - 1]

\* C8: when the transport answers every call with a rate-limit error,
\* doWithRetry makes at most seven transport calls (the sleeps 1, 2, 4, 8, 16
\* and 29 seconds use up the minute) and then returns the error "rate limit
\* exceeded", which carries the total time waited and wraps the last transport
\* error.
C8_RateLimitedGivesUp ==
    /\ Len(outcomes) <= 7
    /\ (/\ Len(outcomes) >= 1
        /\ \A i \in 1..Len(outcomes) : RateLimited(outcomes[i]))
       => /\ Len(outcomes) = 7 => rpc = "done"
          /\ rpc = "done" =>
                /\ rret = Some(RateLimitExceeded(SumSeq(sleeps), Val(outcomes[Len(outcomes)])))
                /\ Val(rret).kind = "rate limit exceeded"
                /\ Val(rret).waited = SumSeq(sleeps)
                /\ Val(rret).cause = outcomes[Len(outcomes)]
                /\ Contains(Val(rret).text, DurationString(SumSeq(sleeps)))

C8_Witness ==
    /\ rpc = "done"
    /\ Len(outcomes) = 7
    /\ \A i \in 1..7 : RateLimited(outcomes[i])
    /\ rret # None /\ Val(rret).waited = maxBackoffDuration

\* C9: an attempt that fails with an error that is not a rate-limit error is
\* the last one: doWithRetry has returned exactly that error, no sleep followed
\* it and no transport call came after it, on the first attempt as well as
\* after rate-limited ones.
C9_OtherErrorReturnedAtOnce ==
    \A i \in 1..Len(outcomes) :
        OtherError(outcomes[i]) =>
            /\ i = Len(outcomes)
            /\ rpc = "done"
            /\ rret = outcomes[i]
            /\ Len(sleeps) = i - 1

C9_Witness ==
    /\ rpc = "done"
    /\ Len(outcomes) = 3
    /\ RateLimited(outcomes[1]) /\ RateLimited(outcomes[2])
    /\ outcomes[3] = Some(NotFound)
    /\ rret = Some(NotFound)

(***************************************************************************)
(* Properties of the reference resolver and of the cached reads.           *)
(***************************************************************************)
Readable(files, path) == ~IsNil(files[path]) /\ Val(files[path]).mode = "rw"
Unreadable(files, path) == ~IsNil(files[path]) /\ Val(files[path]).mode = "none"
Resolving(o, reference) == o = Op("ResolveReferenceFile", << reference >>)

\* C4: when the reference string is readable as a local file,
\* ResolveReferenceFile returns that file's bytes, calls no client method
\* (no GetRemoteFileContent), hands no request to the transport and leaves
\* the cache as it was, also when the string has the form owner/repo/path.
C4_LocalReferenceNeverFetched ==
    [][\A reference \in References :
         (Resolving(op', reference) /\ Readable(fs, reference))
         => /\ ret' = [val |-> Some(Val(fs[reference]).content), err |-> None]
            /\ called' = << >>
            /\ reqs' = << >>
            /\ cache' = cache]_vars

\* a readable local file named like owner/repo/path, the remote file of
\* that name present with other content: the local bytes are returned
C4_Witness ==
    /\ Resolving(op, RemoteReference)
    /\ Readable(fs, RemoteReference)
    /\ Separators(RemoteReference) >= 2
    /\ live.files[OwnerFile] = Some(Base64File(MainJSON))
    /\ ret = [val |-> Some(TagsJSON), err |-> None]
    /\ reqs = << >>
    /\ RemoteFileKey(OwnerFile[1], OwnerFile[2], OwnerFile[3]) \notin DOMAIN cache

\* C5: with no local file and fewer than two "/" in the reference,
\* ResolveReferenceFile fails with the format error and no transport call;
\* with a local file that cannot be read it fails with the local read
\* error, and likewise calls no client method and sends no request.
C5_FormatAndLocalErrorsAreFinal ==
    [][\A reference \in References :
         Resolving(op', reference)
         => /\ (IsNil(fs[reference]) /\ Separators(reference) < 2)
               => /\ ret' = [val |-> None, err |-> Some(ReferenceFormatError(reference))]
                  /\ called' = << >> /\ reqs' = << >> /\ cache' = cache
            /\ Unreadable(fs, reference)
               => /\ ret' = [val |-> None, err |-> Some(LocalReadError(ErrPermission))]
                  /\ called' = << >> /\ reqs' = << >> /\ cache' = cache]_vars

\* an unreadable local file named like owner/repo/path, the remote file of
\* that name present: the resolver has failed and fetched nothing
C5_Witness ==
    /\ Resolving(op, RemoteReference)
    /\ Unreadable(fs, RemoteReference)
    /\ live.files[OwnerFile] = Some(Base64File(MainJSON))
    /\ ~IsNil(ret.err) /\ Val(ret.err).kind = "local read"
    /\ reqs = << >>

\* the other case of C5: a reference without "/" and no local file
C5_FormatErrorReached ==
    /\ Resolving(op, BareReference)
    /\ IsNil(fs[BareReference])
    /\ ~IsNil(ret.err) /\ Val(ret.err).kind = "reference format"
    /\ reqs = << >>

\* C10: each of the eight read operations, called again with the same
\* arguments after a call that succeeded, hands no request to the transport
\* and returns the value the first success returned.
C10_ReadsServedFromCache ==
    (op.name \in ReadOperations /\ again)
    => (reqs = << >> /\ ret = [val |-> firstOk[op], err |-> None])

\* the same for the operations that do use the cache
CachedOperations ==
    { "GetRepository", "GetRulesets", "GetRuleset", "GetFileContent", "GetRemoteFileContent" }
CachedReadsServedFromCache ==
    (op.name \in CachedOperations /\ again)
    => (reqs = << >> /\ ret = [val |-> firstOk[op], err |-> None])

\* a cached read called again after the server state behind it has changed
CachedReadRepeated ==
    /\ op = Op("GetRepository", << >>)
    /\ again
    /\ reqs = << >>
    /\ Val(ret.val).HasIssues # live.repo.HasIssues

(***************************************************************************)
(* Properties of fixing.                                                   *)
(***************************************************************************)
\* two issues about the same resource: same check, same setting, ruleset or file
SameResource(a, b) == a.Type = b.Type /\ a.Name = b.Name /\ a.Data = b.Data

\* no fault was planned and no file of the working directory is locked
Undisturbed == clean /\ \A p \in DOMAIN fs : ~Unreadable(fs, p)

\* a fixable issue of the first run of the checks has been handed to its fixer
FixedOnce == fpc \in { "fixed", "fixed twice", "rechecked", "rechecked by a new client" }

\* C3: a fixable issue that a check reported is fixed by its fixer with
\* Fixed=true, the same fixer fixes the same issue again with Fixed=true,
\* and the checks run afterwards by a new client on the resulting state
\* report no issue for that resource.
C3_FixTwiceThenCompliant ==
    (Undisturbed /\ FixedOnce /\ Val(picked).Fixable)
    => /\ \A i \in 1..Len(results) : results[i].Fixed
       /\ fpc = "rechecked by a new client"
          => (IsNil(ret.err) /\ \A i \in 1..Len(found) : ~SameResource(found[i], Val(picked)))

\* the same for the settings that SettingsFixer has a case for and for files
C3_SettingsWithACaseAndFiles ==
    (FixedOnce /\ Val(picked).Data.setting # "pull_request_creation_policy"
       /\ Val(picked).Type \in { "settings", "files" })
    => C3_FixTwiceThenCompliant

\* a session on a setting, a ruleset and a file in which C3's statement
\* holds to the end
FixedAndCompliant ==
    /\ Undisturbed
    /\ fpc = "rechecked by a new client"
    /\ Len(results) = 2 /\ results[1].Fixed /\ results[2].Fixed
    /\ found = << >>

(***************************************************************************)
(* Properties of the runner and of the orchestrator.                       *)
(***************************************************************************)
\* the names of the checks a run is to call, in the order of their registration
Scheduled ==
    LET checks == NewRunner(Val(policy).Checks, shared)
        wanted(check) == CheckName(check) \notin skip
    IN [i \in 1..Len(SelectSeq(checks, wanted)) |-> CheckName(SelectSeq(checks, wanted)[i])]

\* a write: a request that is no GET, or a file of the working directory changed
NoWriteRequested == \A i \in 1..Len(reqs) : reqs[i].method = "GET"

\* C11: the run of the checks is fail-fast.  When the Run of a check returns
\* an error, Runner.Run returns that error and no issues, no check registered
\* after the failing one has been run, and runLint makes no fix: the
\* orchestrator is handed nothing and no step follows.
C11_FailFast ==
    /\ [](fpc = "failed" =>
            /\ ran # << >>
            /\ ~IsNil(ret.err) /\ ran[Len(ran)].err = ret.err
            /\ \A i \in 1..(Len(ran) - 1) : IsNil(ran[i].err)
            /\ found = << >>
            /\ given = << >> /\ results = << >> /\ invoked = << >>
            /\ NoWriteRequested)
    /\ [][fpc # "failed"]_vars

\* a check failed while checks registered after it were still to be run
C11_Witness ==
    /\ fpc = "failed"
    /\ Len(ran) < Len(Scheduled)
    /\ Len(ran) >= 2

\* the names NewRunner is to register, each check of a list under the name
\* of its own element, without those the run was told to skip
Registered ==
    LET c == Val(policy).Checks
        all == << << "settings" >>, << "actions" >> >>
               \o [i \in 1..LenOf(c.Rulesets) |-> << "rulesets(", Items(c.Rulesets)[i].Name, ")" >>]
               \o [i \in 1..LenOf(c.Files) |->
                     << "files(" >> \o Items(c.Files)[i].Name \o << ")" >>]
        wanted(n) == n \notin skip
    IN SelectSeq(all, wanted)

RECURSIVE Concatenated(_)
Concatenated(runs) == IF runs = << >> THEN << >> ELSE runs[1].issues \o Concatenated(Tail(runs))

\* the checks have been run to the end
RunComplete ==
    /\ fpc \in { "checked", "fixed", "fixed all", "fixed twice", "crashed", "rechecked",
                 "rechecked by a new client" }
    /\ \A i \in 1..Len(ran) : IsNil(ran[i].err)

\* C12: Runner.Run executes the checks in the order of their registration:
\* settings, actions, one check for each ruleset in the order of the list,
\* one for each file in the order of the list, each bound to its own element.
\* A check that is not skipped is run exactly once, a skipped one never, and
\* the issues returned are those of the checks, concatenated in that order.
C12_RegistrationOrder ==
    RunComplete =>
        /\ [i \in 1..Len(ran) |-> ran[i].name] = Registered
        /\ \A i \in 1..Len(ran) : ran[i].name \notin skip
        /\ (fpc \in { "checked", "rechecked", "rechecked by a new client" }
               => found = Concatenated(ran))

\* the same where every iteration of a range loop has its own variable
C12_WithAVariableForEachIteration == ~shared => C12_RegistrationOrder

\* a run of six checks, two of them of the rulesets and two of the files
SixChecksRun == RunComplete /\ Len(ran) = 6 /\ ~shared /\ Len(found) >= 5

\* the field of the configuration that an issue of the settings check or of
\* the actions check is about
Subject(issue) ==
    CASE issue.Type = "settings" /\ issue.Data.setting # "" -> issue.Data.setting
      [] issue.Type = "settings" /\ issue.Data.setting = "" -> "default_branch"
      [] issue.Type = "actions" /\ Contains(issue.Message, << "pinned" >>) ->
           "require_pinned_versions"
      [] issue.Type = "actions" /\ Contains(issue.Message, << "exceeding" >>) ->
           "max_timeout_minutes"
      [] issue.Type = "actions" /\ Contains(issue.Message, << "timeout-minutes", " ", "set" >>) ->
           "require_timeout"
      [] issue.Type = "actions" /\ Contains(issue.Message, << "declare", " ", "permissions" >>) ->
           "require_minimal_permissions"
      [] issue.Type = "actions" /\ Contains(issue.Message, << "match", " ", "reference" >>) ->
           "reference"
      [] issue.Type = "actions" /\ Contains(issue.Message, << "is", " ", "missing" >>) ->
           "required_workflows"
      [] OTHER -> "none"

\* whether the configuration sets the field
IsSet(checks, subject, issue) ==
    LET s == Val(checks.Settings)
        m == Val(s.Merge)
        d == Val(s.Dependabot)
        a == Val(checks.Actions)
        workflow(w) == w.Path = issue.Data.file_name
    IN CASE subject \in { "issues", "wiki", "projects", "discussions", "actions_approve_prs",
                          "pull_request_creation_policy", "default_branch" } ->
              /\ ~IsNil(checks.Settings)
              /\ (CASE subject = "issues" -> ~IsNil(s.Issues)
                   [] subject = "wiki" -> ~IsNil(s.Wiki)
                   [] subject = "projects" -> ~IsNil(s.Projects)
                   [] subject = "discussions" -> ~IsNil(s.Discussions)
                   [] subject = "actions_approve_prs" -> ~IsNil(s.AllowActionsToApprovePRs)
                   [] subject = "pull_request_creation_policy" -> s.PullRequestCreationPolicy # ""
                   [] subject = "default_branch" -> s.DefaultBranch # "")
         [] subject \in MergeSettings ->
              /\ ~IsNil(checks.Settings) /\ ~IsNil(s.Merge)
              /\ (CASE subject = "merge_commit" -> ~IsNil(m.AllowMergeCommit)
                   [] subject = "squash_merge" -> ~IsNil(m.AllowSquashMerge)
                   [] subject = "rebase_merge" -> ~IsNil(m.AllowRebaseMerge)
                   [] subject = "auto_merge" -> ~IsNil(m.AllowAutoMerge)
                   [] subject = "delete_branch_on_merge" -> ~IsNil(m.DeleteBranchOnMerge)
                   [] subject = "update_branch" ->
                        ~IsNil(m.AlwaysSuggestUpdatingPullRequestBranches))
         [] subject \in { "dependabot_alerts", "dependabot_security_updates" } ->
              /\ ~IsNil(checks.Settings) /\ ~IsNil(s.Dependabot)
              /\ IF subject = "dependabot_alerts" THEN ~IsNil(d.Alerts)
                 ELSE ~IsNil(d.SecurityUpdates)
         [] subject = "require_pinned_versions" ->
              ~IsNil(checks.Actions) /\ ~IsNil(a.RequirePinnedVersions)
         [] subject = "require_timeout" -> ~IsNil(checks.Actions) /\ ~IsNil(a.RequireTimeout)
         [] subject = "max_timeout_minutes" ->
              ~IsNil(checks.Actions) /\ ~IsNil(a.MaxTimeoutMinutes)
         [] subject = "require_minimal_permissions" ->
              ~IsNil(checks.Actions) /\ ~IsNil(a.RequireMinimalPermissions)
         [] subject = "required_workflows" ->
              /\ ~IsNil(checks.Actions)
              /\ SelectSeq(Items(a.RequiredWorkflows), workflow) # << >>
         [] subject = "reference" ->
              /\ ~IsNil(checks.Actions)
              /\ SelectSeq(Items(a.RequiredWorkflows), workflow) # << >>
              /\ SelectSeq(Items(a.RequiredWorkflows), workflow)[1].Reference # << >>
         [] OTHER -> FALSE

\* the check of a category that the configuration leaves out altogether
Unconfigured(name) ==
    \/ name = << "settings" >> /\ IsNil(Val(policy).Checks.Settings)
    \/ name = << "actions" >> /\ IsNil(Val(policy).Checks.Actions)

\* C13: what the configuration does not say is no violation.  The settings
\* check and the actions check report no issue about a field that is unset
\* (a nil pointer, an empty string, a nil merge or dependabot object), and
\* a check whose whole category is nil returns no issues and no error and
\* makes no request.
C13_AbsenceIsNoViolation ==
    \A i \in 1..Len(ran) :
        /\ ran[i].name \in { << "settings" >>, << "actions" >> }
              => \A k \in 1..Len(ran[i].issues) :
                    IsSet(Val(policy).Checks, Subject(ran[i].issues[k]), ran[i].issues[k])
        /\ Unconfigured(ran[i].name)
              => ran[i].issues = << >> /\ IsNil(ran[i].err) /\ ran[i].reads = 0

\* a run in which one category is left out and the check of the other, with
\* most of its fields unset while the repository has values for all of them,
\* reports an issue
C13_Witness ==
    /\ fpc = "checked"
    /\ \E i, j \in 1..Len(ran) :
          /\ Unconfigured(ran[i].name)
          /\ ran[j].name \in { << "settings" >>, << "actions" >> }
          /\ ran[j].issues # << >> /\ ran[j].reads > 0

\* an empty run: nothing configured, nothing reported, nothing requested
NothingConfigured ==
    /\ fpc = "checked" /\ Len(ran) = 2 /\ reqs = << >> /\ found = << >>
    /\ Unconfigured(ran[1].name) /\ Unconfigured(ran[2].name)

\* the workflows on disk break every rule and no rule is configured
C13_RulesUnsetWitness ==
    /\ fpc = "checked" /\ ~IsNil(Val(policy).Checks.Actions)
    /\ Val(Val(policy).Checks.Actions) = Actions0
    /\ ~IsNil(fs[ReleasePath]) /\ Val(fs[ReleasePath]).content = LooseWorkflow
    /\ found = << >>

\* Orchestrator.Fix has been called and has returned or the process has died
FixCalled == given # << >>
Crashed == fpc \in { "crashed", "crashed given" }

\* the results are parallel to the issues handed in
Parallel ==
    /\ Len(results) = Len(given)
    /\ \A i \in 1..Len(given) : results[i].Issue = given[i]

\* C14: Orchestrator.Fix returns a list of results parallel to the issues it
\* was handed: of the same length, result i carrying issue i, whatever the
\* outcomes are.  The batch is never given up and no later issue is left
\* out because an earlier one failed.
C14_ResultsParallelToIssues == FixCalled => (~Crashed /\ Parallel)

\* the same for the calls during which no fixer dereferences a nil pointer
C14_UnlessAFixerPanics == (FixCalled /\ ~Crashed) => Parallel

\* a batch of four with three different failures before the last issue
MixedBatchReturned ==
    /\ fpc = "fixed given" /\ Len(given) = 4 /\ Parallel
    /\ \E i, j \in 1..4 : i < j /\ ~results[i].Fixed /\ results[j].Fixed

\* issues reported by the checks of the same configuration never make a fixer panic
NoPanicAfterARun == fpc # "crashed"

\* the terminal states of an issue, read from its result and from the calls made for it
EndsNotFixable(i) ==
    ~results[i].Fixed /\ results[i].Error = Some(NotFixable) /\ invoked[i] = << >>
EndsNoFixer(i) ==
    ~results[i].Fixed /\ results[i].Error = Some(NoFixer(given[i].Type)) /\ invoked[i] = << >>
EndsFixed(i) ==
    results[i].Fixed /\ IsNil(results[i].Error) /\ invoked[i] = << given[i].Type >>
EndsFailedWithError(i) ==
    /\ ~results[i].Fixed /\ ~IsNil(results[i].Error) /\ invoked[i] = << given[i].Type >>
    /\ Val(results[i].Error) \notin { NotFixable, NoFixer(given[i].Type) }

TerminalStates(i) ==
    /\ EndsNotFixable(i) <=> ~given[i].Fixable
    /\ EndsNoFixer(i) <=> (given[i].Fixable /\ given[i].Type \notin Fixers)
    /\ (given[i].Fixable /\ given[i].Type \in Fixers)
          => (EndsFixed(i) \/ EndsFailedWithError(i))

\* C15: every issue handed to Orchestrator.Fix ends in exactly one terminal
\* state and no fixer is called twice for it: NotFixable exactly when Fixable
\* is false, NoFixer exactly when Fixable is true and no fixer is registered
\* for its Type, and otherwise the registered fixer is called once and the
\* issue ends Fixed or FailedWithError.
C15_OneTerminalStateEach ==
    FixCalled =>
        /\ Len(invoked) = Len(given)
        /\ ~Crashed
        /\ Len(results) = Len(given)
        /\ \A i \in 1..Len(given) : TerminalStates(i)

\* the same for the calls during which no fixer dereferences a nil pointer
C15_UnlessAFixerPanics ==
    (FixCalled /\ ~Crashed) =>
        /\ Len(invoked) = Len(given)
        /\ Len(results) = Len(given)
        /\ \A i \in 1..Len(given) : TerminalStates(i)

\* a batch whose issues end in the four terminal states
FourTerminalStates ==
    /\ fpc = "fixed given" /\ Len(results) = Len(given) /\ Len(given) = 4
    /\ EndsNotFixable(1) /\ EndsNoFixer(2) /\ EndsFixed(3) /\ EndsFailedWithError(4)

\* an issue whose fixer is registered and does not find in it what it reads:
\* the key of its Data is absent or empty, or the configuration has no
\* entry of that name
Stale(issue) ==
    LET c == Val(policy).Checks
    IN /\ issue.Fixable
       /\ CASE issue.Type = "settings" -> issue.Data.setting = ""
            [] issue.Type = "rulesets" ->
                 \/ issue.Data.ruleset_name = ""
                 \/ \A i \in 1..LenOf(c.Rulesets) :
                        Items(c.Rulesets)[i].Name # issue.Data.ruleset_name
            [] issue.Type = "files" ->
                 \/ issue.Data.file_name = << >>
                 \/ \A i \in 1..LenOf(c.Files) : Items(c.Files)[i].Name # issue.Data.file_name
            [] issue.Type = "actions" ->
                 \/ issue.Data.file_name = << >>
                 \/ IsNil(c.Actions)
                 \/ \A i \in 1..LenOf(Val(c.Actions).RequiredWorkflows) :
                        Items(Val(c.Actions).RequiredWorkflows)[i].Path # issue.Data.file_name
            [] OTHER -> FALSE

\* the step is a call of Orchestrator.Fix and the fixer of every issue handed in is of the kinds
StaleBatch(kinds) ==
    /\ fpc' \in { "fixed given", "crashed given" }
    /\ \A i \in 1..Len(given') : Stale(given'[i]) /\ given'[i].Type \in kinds

\* every issue failed, and nothing was written on the server or on disk
FailedSafely ==
    /\ ~Crashed'
    /\ Len(results') = Len(given')
    /\ \A i \in 1..Len(given') : ~results'[i].Fixed /\ ~IsNil(results'[i].Error)
    /\ live' = live /\ fs' = fs
    /\ \A i \in 1..Len(reqs') : reqs'[i].method = "GET"

\* C16: a fixer handed a stale or malformed issue fails safely.  When the
\* key it reads from the Data of the issue (setting, ruleset_name, file_name)
\* is absent or empty, or the configuration has no entry of that name, the
\* result has Fixed false and an error, and nothing is written through the
\* API or to the working directory.
C16_StaleIssuesFailSafely ==
    [][StaleBatch({ "settings", "rulesets", "files", "actions" }) => FailedSafely]_vars

\* the same for the fixers of the settings, of the rulesets and of the files
C16_SettingsRulesetsFiles ==
    [][StaleBatch({ "settings", "rulesets", "files" }) => FailedSafely]_vars

\* three stale issues, one for each of those fixers, have failed
ThreeStaleIssuesFailed ==
    /\ fpc = "fixed given" /\ Len(given) = 3 /\ Len(results) = 3
    /\ \A i \in 1..3 : Stale(given[i]) /\ ~results[i].Fixed

\* SettingsFixer.Fix has been called for one issue about a setting of the
\* merge object, with a settings configuration whose Merge is nil
MergeIssueWithoutMerge ==
    /\ fpc \in { "fixed given", "crashed given" }
    /\ Len(given) = 1
    /\ given[1].Type = "settings" /\ given[1].Fixable
    /\ given[1].Data.setting \in MergeSettings
    /\ ~IsNil(Val(policy).Checks.Settings)
    /\ IsNil(Val(Val(policy).Checks.Settings).Merge)

\* C17: SettingsFixer.Fix for a setting of the merge object (merge_commit,
\* squash_merge, rebase_merge, auto_merge, delete_branch_on_merge,
\* update_branch), with a configuration whose Merge is nil, returns a result
\* with Fixed false and an error: it does not crash and calls no API.
C17_NilMergeFailsSafely ==
    MergeIssueWithoutMerge =>
        /\ ~Crashed
        /\ Len(results) = 1 /\ ~results[1].Fixed /\ ~IsNil(results[1].Error)
        /\ reqs = << >>

\* what the code does instead: the process panics before any request
C17_NilMergePanics ==
    MergeIssueWithoutMerge => (fpc = "crashed given" /\ results = << >> /\ reqs = << >>)

\* with a Merge object the same issues are fixed or fail with a result
MergeIssueWithMerge ==
    /\ fpc = "fixed given" /\ Len(given) = 1
    /\ given[1].Data.setting \in MergeSettings
    /\ ~IsNil(Val(policy).Checks.Settings)
    /\ ~IsNil(Val(Val(policy).Checks.Settings).Merge)
    /\ results[1].Fixed

\* the key of Data that the fixer of an issue reads is there
KeyPresent(issue) ==
    CASE issue.Type = "settings" -> issue.Data.setting # ""
      [] issue.Type = "rulesets" -> issue.Data.ruleset_name # ""
      [] issue.Type \in { "files", "actions" } -> issue.Data.file_name # << >>
      [] OTHER -> FALSE

\* the settings that SettingsFixer.Fix has a case for
HandledSettings == SpecialSettings \cup ToggleSettings \cup MergeSettings

\* a fixer turned the issue down for what it carries: an error of its own
\* making, not the failure of a read or of a write
Refused(result) ==
    /\ ~result.Fixed /\ ~IsNil(result.Error)
    /\ Val(result.Error).kind = "fix" /\ IsNil(Val(result.Error).cause)

\* one issue of the run has been handed to the orchestrator
HandedOn == fpc \in { "fixed", "crashed" } /\ ~IsNil(picked) /\ Len(given) = 1

\* C18: the data that a check puts into an issue is the data its fixer
\* reads.  Every issue reported with Fixable true carries the key its fixer
\* reads, with a value the fixer accepts, and every setting that the
\* settings check reports is one that the settings fixer handles.
C18_CheckToFixContract ==
    /\ \A i \in 1..Len(found) :
          found[i].Fixable =>
              /\ KeyPresent(found[i])
              /\ found[i].Type = "settings" => found[i].Data.setting \in HandledSettings
    /\ (HandedOn /\ Val(picked).Fixable)
          => (~Crashed /\ Len(results) = 1 /\ ~Refused(results[1]))

\* the same for every setting but pull_request_creation_policy
C18_ButCreationPolicy ==
    /\ \A i \in 1..Len(found) :
          (found[i].Fixable /\ found[i].Data.setting # "pull_request_creation_policy") =>
              /\ KeyPresent(found[i])
              /\ found[i].Type = "settings" => found[i].Data.setting \in HandledSettings
    /\ (HandedOn /\ Val(picked).Fixable
           /\ Val(picked).Data.setting # "pull_request_creation_policy")
          => (~Crashed /\ Len(results) = 1 /\ ~Refused(results[1]))

\* a missing workflow reported by the actions check has been written by its fixer
WorkflowIssueFixed ==
    /\ HandedOn /\ Val(picked).Type = "actions" /\ Val(picked).Fixable
    /\ results[1].Fixed /\ FileExists(fs, Val(picked).Data.file_name)

\* the bytes a reference resolves to when nothing fails on the way: those of
\* the local file, or of the remote file when there is no local file
ReferenceBytes(reference) ==
    LET parts == SplitN(reference, 3)
        remote == << parts[1], parts[2], parts[3] >>
    IN IF FileExists(fs, reference)
       THEN (IF Val(fs[reference]).mode = "rw" THEN Some(Val(fs[reference]).content) ELSE None)
       ELSE IF Len(parts) = 3 /\ remote \in DOMAIN live.files /\ ~IsNil(live.files[remote])
               /\ Val(live.files[remote]).Encoding = "base64"
       THEN Val(live.files[remote]).Content
       ELSE None

\* the issues are one issue of the files check for the entry
OneFilesIssue(issues, fc) ==
    /\ Len(issues) = 1
    /\ issues[1].Type = "files" /\ issues[1].Fixable
    /\ issues[1].Data = Data(fc.Name, fc.Reference, "", "")

\* what C19 says of the check of one entry, run as ran[i]
FilesCheckAsClaimed(i, fc) ==
    /\ IsNil(ran[i].err)
    /\ IF ~FileExists(fs, fc.Name) THEN OneFilesIssue(ran[i].issues, fc)
       ELSE IF TrimSpace(Val(fs[fc.Name]).content)
               # TrimSpace(HydrateTemplate(Val(ReferenceBytes(fc.Reference))))
       THEN OneFilesIssue(ran[i].issues, fc)
       ELSE ran[i].issues = << >>

\* the first run of the checks, without a fault, has run the check of entry
\* fc as ran[i] and the reference of the entry resolves
FilesCheckRan(i, fc) ==
    /\ fpc \in { "checked", "failed" } /\ clean
    /\ ran[i].name = << "files(" >> \o fc.Name \o << ")" >>
    /\ fc.Reference # << >> /\ ~IsNil(ReferenceBytes(fc.Reference))

\* C19: FilesCheck.Run for an entry whose reference resolves.  When the
\* target file is absent from the working directory it returns no error and
\* exactly one issue with Type files, Fixable true and Data {file_name: the
\* name of the entry, reference: its reference}.  When the target exists it
\* returns one such issue if the contents, trimmed of surrounding whitespace,
\* differ from the hydrated reference, and no issue otherwise.
C19_FilesCheckIssues ==
    \A i \in 1..Len(ran) : \A k \in 1..LenOf(Val(policy).Checks.Files) :
        FilesCheckRan(i, Items(Val(policy).Checks.Files)[k])
            => FilesCheckAsClaimed(i, Items(Val(policy).Checks.Files)[k])

\* the same for a target that is absent or can be read
C19_TargetAbsentOrReadable ==
    \A i \in 1..Len(ran) : \A k \in 1..LenOf(Val(policy).Checks.Files) :
        (/\ FilesCheckRan(i, Items(Val(policy).Checks.Files)[k])
         /\ ~Unreadable(fs, Items(Val(policy).Checks.Files)[k].Name))
            => FilesCheckAsClaimed(i, Items(Val(policy).Checks.Files)[k])

\* a target that differs from the hydrated reference only by a final newline
\* is reported by no issue
TrimmedTargetMatches ==
    /\ Len(ran) = 1 + 2
    /\ FilesCheckRan(1 + 2, LicenseConfig) /\ Readable(fs, << "LICENSE" >>)
    /\ Val(fs[<< "LICENSE" >>]).content # HydrateTemplate(Val(ReferenceBytes(BareReference)))
    /\ ran[1 + 2].issues = << >>

\* an absent target is reported by one issue, the reference being remote
AbsentTargetReported ==
    /\ fpc = "checked" /\ clean /\ Len(ran) = 1 + 2
    /\ ran[1 + 2].name = << "files(", "LICENSE", ")" >>
    /\ ~FileExists(fs, << "LICENSE" >>) /\ ~FileExists(fs, RemoteReference)
    /\ Len(ran[1 + 2].issues) = 1
    /\ ran[1 + 2].issues[1].Data.reference = RemoteReference

(***************************************************************************)
(* config.Loader (src/unnamed/part_006): the discovery and the loading of  *)
(* the policy files.  The repo-scope file is read from the local file      *)
(* system, in the current directory and then in the root of the git        *)
(* repository; the org-scope file is fetched from the repository           *)
(* <owner>/<owner> through the REST client, without the retry loop and     *)
(* without the cache.  The file system here has two levels: the current    *)
(* directory and its parent.                                               *)
(***************************************************************************)
ConfigFileNames == << << ".repolint.yaml" >>, << ".repolint.yml" >> >>

\* the bytes of a policy file, with what yaml.Unmarshal makes of them into a
\* Config (none: the bytes are no YAML document)
ConfigBytes(tokens, cfg) == [tokens |-> tokens, json |-> None, config |-> cfg]

InvalidYAML ==
    Wrap("yaml", << "invalid", " ", "YAML" >>,
         PlainError("unmarshal", << "cannot", " ", "unmarshal" >>))

\* parseConfigBytes: [val, err]
parseConfigBytes(data) ==
    IF "config" \notin DOMAIN data \/ IsNil(data.config)
    THEN [val |-> None, err |-> Some(InvalidYAML)]
    ELSE [val |-> data.config, err |-> None]

\* parseConfig: io.ReadAll of an open file, then parseConfigBytes
parseConfig(data) == parseConfigBytes(data)

\* filepath.Join(dir, name), the current directory being the empty prefix
Join(dir, name) == dir \o name
\* filepath.Base of such a path
Base(path) == << path[Len(path)] >>
Here == << >>
Parent == << "..", "/" >>

\* findGitRoot: the directory that holds .git, looked for upwards (option)
findGitRoot(files) ==
    IF FileExists(files, Join(Here, << ".git" >>)) THEN Some(Here)
    ELSE IF FileExists(files, Join(Parent, << ".git" >>)) THEN Some(Parent)
    ELSE None

\* findConfigFile: the first candidate that os.Stat finds, or the empty path
findConfigFile(files, dir) ==
    IF \E i \in 1..Len(ConfigFileNames) : FileExists(files, Join(dir, ConfigFileNames[i]))
    THEN Join(dir, ConfigFileNames[CHOOSE i \in 1..Len(ConfigFileNames) :
                      /\ FileExists(files, Join(dir, ConfigFileNames[i]))
                      /\ \A j \in 1..(i - 1) : ~FileExists(files, Join(dir, ConfigFileNames[j]))])
    ELSE << >>

NoConfig == [cfg |-> None, name |-> << >>, err |-> None, reqs |-> << >>]

\* Loader.loadLocalConfig: [cfg, name, err, reqs]
loadLocalConfig(files) ==
    LET Opened(configPath, file) ==
            IF ~IsNil(file.err)
            THEN IF Val(file.err) = ErrNotExist THEN NoConfig
                 ELSE [NoConfig EXCEPT !.err = file.err]
            ELSE LET parsed == parseConfig(Val(file.val))
                 IN IF ~IsNil(parsed.err) THEN [NoConfig EXCEPT !.err = parsed.err]
                    ELSE [NoConfig EXCEPT !.cfg = parsed.val, !.name = Base(configPath)]
        At(configPath) == Opened(configPath, ReadFile(files, configPath))
        InGitRoot(gitRoot) ==
            IF IsNil(gitRoot) THEN NoConfig
            ELSE IF findConfigFile(files, Val(gitRoot)) = << >> THEN NoConfig
            ELSE At(findConfigFile(files, Val(gitRoot)))
    IN IF findConfigFile(files, Here) = << >> THEN InGitRoot(findGitRoot(files))
       ELSE At(findConfigFile(files, Here))

\* RESTClient.Get: one call of the transport, [live, err, payload]
RESTClientGet(lv, path, fault) ==
    IF IsNil(fault) THEN Serve(lv, "GET", path, None) ELSE Refuse(lv, Val(fault))

\* the fault planned for the i-th request of a load
LoadFault(plan, i) == IF plan.at = i THEN Some(plan.err) ELSE None

RECURSIVE loadOwnerConfigFrom(_, _, _, _, _)
\* the loop of loadOwnerConfig from the i-th name on: any error of the GET
\* moves on to the next name
loadOwnerConfigFrom(lv, l, plan, i, sent) ==
    IF i > Len(ConfigFileNames) THEN [NoConfig EXCEPT !.reqs = sent]
    ELSE LET name == ConfigFileNames[i]
             path == ContentsPath(<< l.owner >>, << l.owner >>, name)
             now == Append(sent, Request("GET", path, None))
             Answered(got) ==
                 IF ~IsNil(got.err) THEN loadOwnerConfigFrom(lv, l, plan, i + 1, now)
                 ELSE IF Val(got.payload).Encoding # "base64"
                 THEN [NoConfig EXCEPT !.err = Some(UnexpectedEncoding(Val(got.payload).Encoding)),
                                       !.reqs = now]
                 ELSE IF IsNil(Val(got.payload).Content)
                 THEN [NoConfig EXCEPT !.err = Some(DecodeError), !.reqs = now]
                 ELSE LET parsed == parseConfigBytes(Val(Val(got.payload).Content))
                      IN IF ~IsNil(parsed.err)
                         THEN [NoConfig EXCEPT !.err = parsed.err, !.reqs = now]
                         ELSE [cfg |-> parsed.val, name |-> name, err |-> None, reqs |-> now]
         IN Answered(RESTClientGet(lv, path, LoadFault(plan, i)))

\* Loader.loadOwnerConfig: [cfg, name, err, reqs]
loadOwnerConfig(lv, l, plan) ==
    IF l.repo = l.owner THEN NoConfig
    ELSE loadOwnerConfigFrom(lv, l, plan, 1, << >>)

LoadedConfig(cfg, repoConfig, ownerConfig, repoSource, ownerSource) ==
    [Config |-> cfg, RepoConfig |-> repoConfig, OwnerConfig |-> ownerConfig,
     RepoSource |-> repoSource, OwnerSource |-> ownerSource]

\* fmt.Sprintf("%s/%s/%s", owner, repo, fileName)
SourceOf(o, r, name) == << o, "/", r, "/" >> \o name

NoConfigurationFound(l) ==
    PlainError("discovery",
               << "no", " ", "configuration", " ", "found:", " ", "checked", " ",
                  l.owner, "/", l.repo, "/", "{" >> \o ConfigFileNames[1] \o << "," >>
               \o ConfigFileNames[1 + 1] \o << "}", " ", "and", " ", l.owner, "/", l.owner, "/",
                  "{" >> \o ConfigFileNames[1] \o << "," >> \o ConfigFileNames[1 + 1]
               \o << "}", ".", " ", "To", " ", "get", " ", "started,", " ", "run", " ",
                     "'gh repolint init'" >>)

\* Loader.Load: [val, err, reqs]
Load(files, lv, l, plan) ==
    LET Both(local, org) ==
            IF ~IsNil(org.err)
            THEN [val |-> None,
                  err |-> Some(Wrap("load", << "error", " ", "loading", " ", "owner", " ",
                                               "config" >>, Val(org.err))),
                  reqs |-> org.reqs]
            ELSE IF IsNil(local.cfg) /\ IsNil(org.cfg)
            THEN [val |-> None, err |-> Some(NoConfigurationFound(l)), reqs |-> org.reqs]
            ELSE [val |-> Some(LoadedConfig(
                                 MergeConfigs(org.cfg, local.cfg), local.cfg, org.cfg,
                                 IF IsNil(local.cfg) THEN << >>
                                 ELSE SourceOf(l.owner, l.repo, local.name),
                                 IF IsNil(org.cfg) THEN << >>
                                 ELSE SourceOf(l.owner, l.owner, org.name))),
                  err |-> None, reqs |-> org.reqs]
        Local(local) ==
            IF ~IsNil(local.err)
            THEN [val |-> None,
                  err |-> Some(Wrap("load", << "error", " ", "loading", " ", "repo", " ",
                                               "config" >>, Val(local.err))),
                  reqs |-> << >>]
            ELSE Both(local, loadOwnerConfig(lv, l, plan))
    IN Local(loadLocalConfig(files))

\* Loader.LoadFromFile: [val, err, reqs]
LoadFromFile(files, path) ==
    LET Opened(file) ==
            IF ~IsNil(file.err)
            THEN [val |-> None,
                  err |-> Some(Wrap("open", << "failed", " ", "to", " ", "open", " ", "config",
                                               " ", "file" >>, Val(file.err))),
                  reqs |-> << >>]
            ELSE LET parsed == parseConfig(Val(file.val))
                 IN IF ~IsNil(parsed.err)
                    THEN [val |-> None,
                          err |-> Some(Wrap("parse", << "failed", " ", "to", " ", "parse", " ",
                                                        "config", " ", "file" >>,
                                            Val(parsed.err))),
                          reqs |-> << >>]
                    ELSE [val |-> Some(LoadedConfig(parsed.val, parsed.val, None, path, << >>)),
                          err |-> None, reqs |-> << >>]
    IN Opened(ReadFile(files, path))

(***************************************************************************)
(* A load: the files of one working tree and of one org repository, and a  *)
(* transport that fails at most one request.                               *)
(***************************************************************************)
\* a policy document told from the others by its settings
LoadDocument(seed) == Some(Document(Some(SettingsFill(seed, 1, TRUE, FALSE)), None, None, None))
\* what an empty file unmarshals to
EmptyDocument == Some(Document(None, None, None, None))

PolicyFile(seed) ==
    ConfigBytes(<< "checks:", "\n", "settings:" >> \o Digits(seed), LoadDocument(seed))
EmptyFile == ConfigBytes(<< >>, EmptyDocument)
BrokenFile == ConfigBytes(<< "checks:", "\t", "[" >>, None)

ExplicitPath == << "custom.yaml" >>
GitHere == Join(Here, << ".git" >>)
GitUp == Join(Parent, << ".git" >>)
LoadPaths ==
    { Join(d, ConfigFileNames[i]) : d \in { Here, Parent }, i \in 1..Len(ConfigFileNames) }
    \cup { GitHere, GitUp, ExplicitPath }

\* the working trees
LoadTrees ==
    { [p \in LoadPaths |->
         CASE p = Join(Here, ConfigFileNames[1]) -> yaml
           [] p = Join(Here, ConfigFileNames[1 + 1]) -> yml
           [] p = Join(Parent, ConfigFileNames[1]) -> None
           [] p = Join(Parent, ConfigFileNames[1 + 1]) -> up
           [] p = GitHere -> IF git = "here" THEN Some(LocalFile("rw", Bytes(<< >>, None)))
                             ELSE None
           [] p = GitUp -> IF git = "up" THEN Some(LocalFile("rw", Bytes(<< >>, None))) ELSE None
           [] OTHER -> custom] :
      yaml \in { None, Some(LocalFile("rw", PolicyFile(1))), Some(LocalFile("none", PolicyFile(1))),
                 Some(LocalFile("rw", BrokenFile)) },
      yml \in { None, Some(LocalFile("rw", PolicyFile(1 + 1))) },
      up \in { None, Some(LocalFile("rw", PolicyFile(3))) },
      git \in { "here", "up", "none" },
      custom \in { None, Some(LocalFile("rw", PolicyFile(4))), Some(LocalFile("rw", BrokenFile)) } }

OrgFile(i) == << << ClientOwner >>, << ClientOwner >>, ConfigFileNames[i] >>

\* the org repositories
LoadLives ==
    { [Live0 EXCEPT !.files = [f \in { OrgFile(i) : i \in 1..Len(ConfigFileNames) } |->
                                 IF f = OrgFile(1) THEN yaml ELSE yml]] :
      yaml \in { None, Some(Base64File(PolicyFile(5))), Some(Base64File(EmptyFile)),
                 Some(Base64File(BrokenFile)), Some(LargeFile),
                 Some([Encoding |-> "base64", Content |-> None]) },
      yml \in { None, Some(Base64File(PolicyFile(6))) } }

\* NewLoader: the owner and the repository of the client; the repository is
\* an ordinary one or the org-level one
Loaders == { [owner |-> ClientOwner, repo |-> r] : r \in { ClientRepo, ClientOwner } }

MaxLoadFaultAt == 2
LoadPlans == { [at |-> 0, err |-> NotFound] }
             \cup { [at |-> i, err |-> e] : i \in 1..MaxLoadFaultAt,
                                            e \in { ServerError, NetworkError } }

LoadIdle ==
    /\ loader = None
    /\ loaded = None
    /\ lpc = "idle"

LoadStart ==
    /\ ClientNew
    /\ fs \in LoadTrees
    /\ live \in LoadLives
    /\ op = Op("start", << >>)
    /\ loader \in { Some(l) : l \in Loaders }
    /\ loaded = None
    /\ lpc = "start"

LoadLeaves(o, r, ok, failed) ==
    /\ op' = o
    /\ ret' = [val |-> None, err |-> r.err]
    /\ reqs' = r.reqs
    /\ loaded' = r.val
    /\ lpc' = IF IsNil(r.err) THEN ok ELSE failed
    /\ UNCHANGED << mergeVars, retryVars, fixVars, lintVars, matchVars, cache, live, fs, called,
                    firstOk, again, loader >>

\* the command calls Loader.Load
LoaderLoad ==
    /\ lpc = "start"
    /\ \E plan \in LoadPlans :
         \E r \in { Load(fs, live, Val(loader), plan) } :
            LoadLeaves(Op("Load", << plan >>), r, "loaded", "failed")

\* the command calls Loader.LoadFromFile with the path of its --config flag
LoaderLoadFromFile ==
    /\ lpc = "start"
    /\ \E path \in { ExplicitPath, Join(Here, ConfigFileNames[1]), << "missing.yaml" >> } :
         \E r \in { LoadFromFile(fs, path) } :
            LoadLeaves(Op("LoadFromFile", << path >>), r, "loaded from file", "file failed")

LoadNext == LoaderLoad \/ LoaderLoadFromFile

(***************************************************************************)
(* The contract of the loader, stated on the files that exist: the         *)
(* working tree and the org repository are not changed by a load.          *)
(***************************************************************************)
\* the places Load looks for the repo-scope file, in order
RepoScopeCandidates ==
    << Join(Here, ConfigFileNames[1]), Join(Here, ConfigFileNames[1 + 1]) >>
    \o (IF ~FileExists(fs, GitHere) /\ FileExists(fs, GitUp)
        THEN << Join(Parent, ConfigFileNames[1]), Join(Parent, ConfigFileNames[1 + 1]) >>
        ELSE << >>)

RepoScopeExists ==
    \E i \in 1..Len(RepoScopeCandidates) : FileExists(fs, RepoScopeCandidates[i])

\* the org-scope files of a repository that is not the org-level one
OrgScopeExists ==
    /\ Val(loader).repo # Val(loader).owner
    /\ \E i \in 1..Len(ConfigFileNames) : ~IsNil(live.files[OrgFile(i)])

\* the document of the first repo-scope file there is (option)
RepoScopeDocument ==
    LET first == CHOOSE i \in 1..Len(RepoScopeCandidates) :
                    (FileExists(fs, RepoScopeCandidates[i])
                     /\ \A j \in 1..(i - 1) : ~FileExists(fs, RepoScopeCandidates[j]))
    IN IF ~RepoScopeExists THEN None
       ELSE Val(fs[RepoScopeCandidates[first]]).content.config

\* the document of the first org-scope file there is (option)
OrgScopeDocument ==
    LET first == CHOOSE i \in 1..Len(ConfigFileNames) :
                    (~IsNil(live.files[OrgFile(i)])
                     /\ \A j \in 1..(i - 1) : IsNil(live.files[OrgFile(j)]))
    IN IF ~OrgScopeExists THEN None
       ELSE Val(Val(live.files[OrgFile(first)]).Content).config

AfterLoad == lpc \in { "loaded", "failed" }
DiscoveryError == ~IsNil(ret.err) /\ Val(ret.err) = NoConfigurationFound(Val(loader))

\* the discovery error arises exactly when there is neither file
DiscoveryErrorIffNeither ==
    AfterLoad => (DiscoveryError <=> (~RepoScopeExists /\ ~OrgScopeExists))

\* a successful Load retains both documents and merges them
MergedAndRetained ==
    lpc = "loaded" =>
        /\ Val(loaded).RepoConfig = RepoScopeDocument
        /\ Val(loaded).OwnerConfig = OrgScopeDocument
        /\ Val(loaded).Config = MergeConfigs(Val(loaded).OwnerConfig, Val(loaded).RepoConfig)

\* no request is made for the org-level repository
NoFetchForTheOrgRepository ==
    (AfterLoad /\ Val(loader).repo = Val(loader).owner) => reqs = << >>

\* LoadFromFile gives a one-sided result and makes no request
OneSidedFromFile ==
    /\ lpc \in { "loaded from file", "file failed" } => reqs = << >>
    /\ lpc = "loaded from file" =>
         /\ Val(loaded).RepoConfig = Val(loaded).Config
         /\ Val(loaded).Config = Val(fs[op.args[1]]).content.config
         /\ IsNil(Val(loaded).OwnerConfig)
         /\ Val(loaded).OwnerSource = << >>

\* C20: Load fails with the discovery error exactly when neither a repo-scope
\* nor an org-scope policy file is found; every successful Load returns the
\* merge of the two documents and retains both; the org-scope fetch is not
\* attempted when the repository is named like its owner; LoadFromFile gives
\* RepoConfig = Config, no org-scope counterpart, and makes no org fetch.
C20_LoaderContract ==
    /\ DiscoveryErrorIffNeither
    /\ MergedAndRetained
    /\ NoFetchForTheOrgRepository
    /\ OneSidedFromFile

\* a request of the load was answered with an error that is not "not found"
\* although the file it asked for is there
OrgFetchFailed ==
    /\ op.name = "Load"
    /\ op.args[1].at \in 1..Len(reqs)
    /\ ~IsNil(live.files[OrgFile(op.args[1].at)])

\* C20, as long as every request for a file that is there is answered
C20_UnlessAnOrgFetchFails == OrgFetchFailed \/ C20_LoaderContract

\* the three parts of C20 that no failing request touches
C20_FetchAndFileParts == NoFetchForTheOrgRepository /\ OneSidedFromFile

\* a load that found both files and merged them
BothScopesLoaded ==
    /\ lpc = "loaded"
    /\ ~IsNil(Val(loaded).RepoConfig) /\ ~IsNil(Val(loaded).OwnerConfig)
    /\ Val(loaded).Config \notin { Val(loaded).RepoConfig, Val(loaded).OwnerConfig }

\* a load that found neither file
NeitherScopeFound ==
    /\ AfterLoad /\ DiscoveryError /\ ~RepoScopeExists /\ ~OrgScopeExists
    /\ Val(loader).repo # Val(loader).owner /\ Len(reqs) = Len(ConfigFileNames)

\* a load in the org-level repository whose files are on the server too
OrgRepositoryLoaded ==
    /\ AfterLoad /\ Val(loader).repo = Val(loader).owner
    /\ ~IsNil(live.files[OrgFile(1)])

\* a load from an explicit path beside discoverable files of both scopes
ExplicitFileLoaded ==
    /\ lpc = "loaded from file" /\ op.args[1] = ExplicitPath
    /\ RepoScopeExists /\ OrgScopeExists

\* the org-scope file is there, its fetch failed, and Load reports that no
\* configuration was found
DiscoveryErrorWithAnOrgFile ==
    /\ AfterLoad /\ DiscoveryError /\ OrgScopeExists /\ OrgFetchFailed

\* the org-scope file is there, its fetch failed, and Load succeeds without it
LoadedWithoutTheOrgFile ==
    /\ lpc = "loaded" /\ OrgFetchFailed
    /\ IsNil(Val(loaded).OwnerConfig) /\ ~IsNil(OrgScopeDocument)

(***************************************************************************)
(* runLint (src/unnamed/part_000): one run of the command.  The client     *)
(* checks its permissions, the configuration is loaded, the checks are     *)
(* run, and, with --fix, the issues are handed to the orchestrator.  The   *)
(* transport fails at most one request of a run.                           *)
(***************************************************************************)
\* Runner.GetCheckStatuses
GetCheckStatuses(checks) ==
    [i \in 1..Len(checks) |-> [Name |-> CheckName(checks[i]), Skipped |-> FALSE]]

\* a working tree that holds the policy p, as .repolint.yaml and under the
\* path a --config flag names
WithConfig(files, p) ==
    [q \in DOMAIN files \cup { ConfigFileNames[1], ExplicitPath } |->
        IF q \in { ConfigFileNames[1], ExplicitPath }
        THEN Some(LocalFile("rw", ConfigBytes(<< "checks:" >>, Some(p))))
        ELSE files[q]]

\* the values of the --config flag: not given, a file, no file
ConfigFlags == { << >>, ExplicitPath, << "missing.yaml" >> }

\* the faults of a step of a run that has seen no fault yet
PlansOf(plans) == { plan \in plans : plan.at = 0 \/ clean }

LintIdle ==
    /\ npc = "idle"
    /\ fixFlag = FALSE
    /\ configFlag = << >>
    /\ statuses = << >>

LintStart ==
    /\ ClientNew
    /\ op = Op("start", << >>)
    /\ npc = "start"
    /\ fixFlag \in BOOLEAN
    /\ configFlag \in ConfigFlags
    /\ statuses = << >>
    /\ loader = None /\ loaded = None /\ lpc = "idle"
    /\ policy = None /\ found = << >> /\ picked = None /\ results = << >>
    /\ fpc = "idle" /\ clean = TRUE /\ shared \in BOOLEAN /\ skip = {}
    /\ ran = << >> /\ given = << >> /\ invoked = << >>
    /\ \E family \in FixFamilies : \E p \in FixPolicies(family) : \E w \in FixWorlds(family) :
         /\ live = w.live
         /\ fs = WithConfig(w.fs, p)

\* what a step of the run leaves of the client and of the run
LintLeaves(o, c, lv, files, rq, err, plan, to) ==
    /\ op' = o
    /\ cache' = c
    /\ live' = lv
    /\ fs' = files
    /\ reqs' = rq
    /\ ret' = [val |-> None, err |-> err]
    /\ clean' = (clean /\ plan.at = 0)
    /\ npc' = to
    /\ Len(lv.rulesets) <= MaxRulesets
    /\ UNCHANGED << called, firstOk, again, shared, picked, fpc, fixFlag, configFlag >>
    /\ UNCHANGED << mergeVars, retryVars, matchVars >>

\* client.CheckPermissions(): its error ends the run
LintCheckPermissions ==
    /\ npc = "start"
    /\ \E plan \in PlansOf({ p \in FaultPlans : p.at <= 1 }) :
         \E r \in { CheckPermissions(cache, live, IF plan.at = 1 THEN Some(plan.err) ELSE None) } :
            /\ LintLeaves(Op("CheckPermissions", << >>), r.cache, live, fs, r.reqs, r.err, plan,
                          IF IsNil(r.err) THEN "permitted" ELSE "stopped: permissions")
            /\ UNCHANGED << loadVars, policy, found, results, skip, ran, given, invoked,
                            statuses >>

\* config.NewLoader(client), then Load or, with --config, LoadFromFile
LintLoad ==
    /\ npc = "permitted"
    /\ \E plan \in PlansOf(IF configFlag = << >> THEN LoadPlans
                           ELSE { q \in LoadPlans : q.at = 0 }) :
         \E l \in { [owner |-> ClientOwner, repo |-> ClientRepo] } :
            \E r \in { IF configFlag = << >> THEN Load(fs, live, l, plan)
                       ELSE LoadFromFile(fs, configFlag) } :
               /\ LintLeaves(Op(IF configFlag = << >> THEN "Load" ELSE "LoadFromFile",
                                << plan >>),
                             cache, live, fs, r.reqs,
                             IF IsNil(r.err) THEN None
                             ELSE Some(Wrap("configuration", << "configuration", " ", "error" >>,
                                            Val(r.err))),
                             plan,
                             IF IsNil(r.err) THEN "configured" ELSE "stopped: configuration")
               /\ loader' = Some(l)
               /\ loaded' = r.val
               /\ lpc' = IF IsNil(r.err) THEN "loaded" ELSE "failed"
               /\ policy' = IF IsNil(r.err) THEN Val(r.val).Config ELSE None
               /\ UNCHANGED << found, results, skip, ran, given, invoked, statuses >>

\* a runLint that goes on to handleFix whenever --fix is given
AfterRunRegardless(err, issues, fix) ==
    IF fix THEN "checked"
    ELSE IF ~IsNil(err) THEN "stopped: check failed"
    ELSE IF issues = << >> THEN "passed"
    ELSE "reported"

\* a runLint that hands its issues to handleFix without looking at --fix
AfterRunFixing(err, issues, fix) ==
    IF ~IsNil(err) THEN "stopped: check failed"
    ELSE IF issues = << >> THEN "passed"
    ELSE "checked"

\* where runLint goes after runner.Run: the error ends the run, no issue is
\* a success, and the issues are fixed with --fix and printed without it
AfterRun(err, issues, fix) ==
    IF ~IsNil(err) THEN "stopped: check failed"
    ELSE IF issues = << >> THEN "passed"
    ELSE IF fix THEN "checked"
    ELSE "reported"

\* checks.NewRunner and runner.Run(ctx, skip)
LintRun ==
    /\ npc = "configured"
    /\ \E plan \in PlansOf(FaultPlans) : \E sk \in SkipSets :
         \E r \in { RunChecks(Context(cache, live, fs, plan), Val(policy).Checks, shared, sk) } :
            /\ LintLeaves(Op("Run", << >>), r.x.cache, r.x.live, r.x.fs, r.x.reqs,
                          IF IsNil(r.err) THEN None
                          ELSE Some(Wrap("check", << "check", " ", "failed" >>, Val(r.err))),
                          plan, AfterRun(r.err, r.issues, fixFlag))
            /\ found' = r.issues
            /\ skip' = sk
            /\ ran' = r.ran
            /\ statuses' = GetCheckStatuses(NewRunner(Val(policy).Checks, shared))
            /\ UNCHANGED << loadVars, policy, results, given, invoked >>

\* what handleFix returns after orchestrator.Fix
AfterFix(r) ==
    IF r.crashed THEN "crashed"
    ELSE IF \E i \in 1..Len(r.results) : ~r.results[i].Fixed THEN "stopped: manual intervention"
    ELSE "fixed"

\* handleFix: fix.NewOrchestrator and orchestrator.Fix(ctx, issues)
LintFix ==
    /\ npc = "checked"
    /\ \E plan \in PlansOf(FaultPlans) :
         \E r \in { OrchestratorFix(Context(cache, live, fs, plan), Val(policy).Checks, found) } :
            /\ LintLeaves(Op("Fix", << >>), r.x.cache, r.x.live, r.x.fs, r.x.reqs, None, plan,
                          AfterFix(r))
            /\ given' = found
            /\ invoked' = r.invoked
            /\ results' = IF r.crashed THEN << >> ELSE r.results
            /\ UNCHANGED << loadVars, policy, found, skip, ran, statuses >>

LintNext ==
    \/ LintCheckPermissions
    \/ LintLoad
    \/ LintRun
    \/ LintFix

(***************************************************************************)
(* Properties of a run of the command.                                     *)
(***************************************************************************)
\* the step writes: it hands a request that is no GET to the transport, or
\* the repository or the working tree is not what it was
Writes ==
    \/ \E i \in 1..Len(reqs') : reqs'[i].method # "GET"
    \/ live' # live
    \/ fs' # fs

\* the step is a call of orchestrator.Fix
FixAttempted == op'.name = "Fix" /\ op.name # "Fix"

\* the check phase is over: every check that was not skipped has been run
\* and none has returned an error
ChecksCompleted ==
    /\ IsNil(ret.err)
    /\ Len(ran) = Len(Scheduled)
    /\ \A i \in 1..Len(ran) : ran[i].name = Scheduled[i] /\ IsNil(ran[i].err)

\* C21: within one run checks and fixes never interleave.  A step writes, or
\* calls the orchestrator, only after runner.Run has returned without error
\* with every scheduled check run, and the run of the checks writes nothing.
C21_ChecksBeforeFixes ==
    [][(Writes \/ FixAttempted) => (op.name = "Run" /\ op'.name = "Fix" /\ ChecksCompleted)]_vars

\* a run whose fix phase wrote after a check phase of several checks
C21_Witness ==
    /\ npc = "fixed"
    /\ Len(ran) >= 3
    /\ \E i \in 1..Len(reqs) : reqs[i].method # "GET"
    /\ results # << >>

\* the run has made its call of CheckPermissions
PermissionsChecked == npc \notin { "idle", "start" }

\* the fetch of the repository metadata failed, or the repository is archived
MetadataUnavailable ==
    \/ live.repo.Archived
    \/ npc \in { "permitted", "stopped: permissions" } /\ ~clean

\* nothing of the run after CheckPermissions has happened
NothingFurther ==
    /\ loader = None /\ loaded = None /\ policy = None
    /\ ran = << >> /\ found = << >> /\ statuses = << >>
    /\ given = << >> /\ invoked = << >> /\ results = << >>
    /\ reqs = << Request("GET", RepoPath, None) >>

\* C22: when the fetch of the repository metadata fails or the repository is
\* archived, GetRepository stores nothing in the cache, CheckPermissions
\* returns an insufficient-permissions error that wraps the cause, and the
\* run stops there: no configuration is loaded, no check is run, no fix is
\* applied, and no step follows.  The run stops there in no other case.
C22_PermissionsGate ==
    /\ []((npc \in { "permitted", "stopped: permissions" } /\ MetadataUnavailable)
              => npc = "stopped: permissions")
    /\ [](npc = "stopped: permissions" =>
            /\ MetadataUnavailable
            /\ cache = << >>
            /\ ~IsNil(ret.err) /\ Val(ret.err).kind = "permissions"
            /\ Val(ret.err).text[1] = "insufficient" /\ Val(ret.err).text[3] = "permissions"
            /\ Val(ret.err).cause \in { Some(ArchivedError) } \cup { Some(e) : e \in Faults }
            /\ (Val(ret.err).cause = Some(ArchivedError)) <=> (clean /\ live.repo.Archived)
            /\ NothingFurther)
    /\ [](PermissionsChecked /\ npc # "stopped: permissions" => RepoKey \in DOMAIN cache)
    /\ [][npc # "stopped: permissions"]_vars

\* a run stopped by its permission check on an archived repository
C22_Witness ==
    /\ npc = "stopped: permissions"
    /\ live.repo.Archived /\ clean
    /\ Val(ret.err).cause = Some(ArchivedError)

\* a run stopped by its permission check when the transport failed
StoppedByAFault ==
    /\ npc = "stopped: permissions"
    /\ ~live.repo.Archived /\ ~clean

(***************************************************************************)
(* The cache and the write operations of the client.                       *)
(***************************************************************************)
WriteOperations ==
    { "UpdateRepository", "UpdateWorkflowPermissions", "CreateRuleset", "UpdateRuleset",
      "EnableVulnerabilityAlerts", "DisableVulnerabilityAlerts",
      "EnableAutomatedSecurityFixes", "DisableAutomatedSecurityFixes" }

\* every entry of the cache c is an entry of the cache d
Keeps(c, d) == \A k \in DOMAIN c : k \in DOMAIN d /\ d[k] = c[k]

\* C23: a write operation of the client leaves the cache as it is, whether it
\* succeeds or fails, and is not answered from the cache: it hands its one
\* request to the transport.  No step removes or replaces an entry of the
\* cache, and the cache grows only in a step that is no write operation and
\* whose requests are all GET.
C23_WritesLeaveTheCache ==
    [][/\ op'.name \in WriteOperations =>
            /\ cache' = cache
            /\ Len(reqs') = 1 /\ reqs'[1].method # "GET"
       /\ Keeps(cache, cache')
       /\ cache' # cache =>
            /\ op'.name \notin WriteOperations
            /\ reqs' # << >>
            /\ \A i \in 1..Len(reqs') : reqs'[i].method = "GET"]_vars

\* a write that succeeded, and one that failed, on a client whose cache holds
\* what the write changed
C23_Witness ==
    /\ op.name = "UpdateRepository"
    /\ IsNil(ret.err)
    /\ RepoKey \in DOMAIN cache
    /\ cache[RepoKey] # live.repo

\* a write that failed on a client with a cache
WriteFailedWithACache ==
    /\ op.name \in WriteOperations
    /\ ~IsNil(ret.err)
    /\ cache # << >>

(***************************************************************************)
(* The check-status list.                                                  *)
(***************************************************************************)
\* the run has called runner.Run
RunReturned == npc \in { "stopped: check failed", "passed", "reported", "checked", "fixed",
                         "crashed", "stopped: manual intervention" }

\* the names of the checks of the runner, in the order of their registration
RunnerNames ==
    [i \in 1..Len(NewRunner(Val(policy).Checks, shared)) |->
        CheckName(NewRunner(Val(policy).Checks, shared)[i])]

\* C24: the check-status list has one entry per registered check, in the
\* order of registration, with the name of the check and a skipped flag that
\* is true exactly when the name of the check was in the skip set of the run.
C24_CheckStatusList ==
    RunReturned =>
        /\ Len(statuses) = Len(RunnerNames)
        /\ \A i \in 1..Len(statuses) :
              /\ statuses[i].Name = RunnerNames[i]
              /\ statuses[i].Skipped <=> (RunnerNames[i] \in skip)

\* the list has the names, in order, and no entry is ever flagged
C24_NamesAndNoFlag ==
    RunReturned =>
        /\ Len(statuses) = Len(RunnerNames)
        /\ \A i \in 1..Len(statuses) :
              statuses[i].Name = RunnerNames[i] /\ ~statuses[i].Skipped

\* printSuccess is reached after a run that skipped a registered check
PassedWithASkippedCheck ==
    /\ npc = "passed"
    /\ \E i \in 1..Len(statuses) : statuses[i].Name \in skip
    /\ Len(ran) < Len(statuses)

(***************************************************************************)
(* The rulesets fixer: create or update by name.                           *)
(***************************************************************************)
\* the names of the rulesets of the repository lv
LiveNames(lv) == { lv.rulesets[i].Name : i \in 1..Len(lv.rulesets) }

\* the names the requests rq ask the server to create a ruleset for
Creates(rq) ==
    { Val(rq[i].body).name : i \in { j \in 1..Len(rq) :
                                       rq[j].method = "POST" /\ rq[j].path = RulesetsPath } }

\* the requests rq that ask the server to create a ruleset
CreateRequests(rq) ==
    { i \in 1..Len(rq) : rq[i].method = "POST" /\ rq[i].path = RulesetsPath }

OnePerName(lv) ==
    \A i, j \in 1..Len(lv.rulesets) :
        lv.rulesets[i].Name = lv.rulesets[j].Name => i = j

\* C25: the rulesets fixer creates a ruleset only when the repository has
\* none of the configured name at the time of the fix, and updates it in
\* place otherwise; so the repository never holds two rulesets of one name,
\* and a fix after a successful create does not create again.
C25_CreateOrUpdateByName ==
    [][/\ Creates(reqs') \cap LiveNames(live) = {}
       /\ \A i, j \in CreateRequests(reqs') :
             Val(reqs'[i].body).name = Val(reqs'[j].body).name => i = j
       /\ OnePerName(live) => OnePerName(live')]_vars

\* C25 for a fixer whose client has not listed the rulesets before: the list
\* it decides on is the one of the repository
C25_ClientWithoutAList ==
    [][(RulesetsKey \notin DOMAIN cache /\ Len(given') <= 1)
           => (Creates(reqs') \cap LiveNames(live) = {} /\ OnePerName(live'))]_vars

\* a fix that updated the ruleset of the configured name in place
UpdatedInPlace ==
    /\ fpc = "fixed"
    /\ ~IsNil(picked) /\ Val(picked).Type = "rulesets"
    /\ Len(results) = 1 /\ results[1].Fixed
    /\ \E i \in 1..Len(reqs) : reqs[i].method = "PUT" /\ reqs[i].path = RulesetPath(1)
    /\ Len(live.rulesets) = 1

\* the ruleset was created by the first fix and created again by the second
CreatedTwice ==
    /\ fpc = "fixed twice"
    /\ Len(results) = 1 + 1 /\ results[1].Fixed /\ results[1 + 1].Fixed
    /\ Len(live.rulesets) = 1 + 1
    /\ live.rulesets[1].Name = live.rulesets[1 + 1].Name

(***************************************************************************)
(* What doWithRetry takes for a rate-limit condition.                      *)
(***************************************************************************)
\* the error signals HTTP 403 or HTTP 429, or carries a rate-limit marker
RateLimitSignal(err) ==
    \/ err.status \in { 403, 429 }
    \/ Contains(err.text, << "rate", " ", "limit" >>)

\* the same without the status 429
RateLimitSignalBut429(err) ==
    \/ err.status = 403
    \/ Contains(err.text, << "rate", " ", "limit" >>)

\* the answers of the transport that doWithRetry went round the loop for
Retried ==
    { i \in 1..Len(outcomes) : i < Len(outcomes) \/ rpc = "loop" }

\* the call returned the last answer of the transport as it was
ReturnedAsItWas ==
    /\ rpc = "done" /\ outcomes # << >>
    /\ ~IsNil(outcomes[Len(outcomes)])
    /\ rret = outcomes[Len(outcomes)]

\* the call gave up on the last answer of the transport after the budget
GaveUp ==
    /\ rpc = "done" /\ outcomes # << >>
    /\ ~IsNil(outcomes[Len(outcomes)])
    /\ ~IsNil(rret) /\ Val(rret).kind = "rate limit exceeded"

\* C26: doWithRetry takes a transport error for a rate-limit condition, and
\* retries it with backoff, exactly when the error signals HTTP 403 or HTTP
\* 429 or carries a rate-limit marker; every other error is returned at once.
C26_RateLimitClassification ==
    /\ \A i \in Retried : RateLimitSignal(Val(outcomes[i]))
    /\ GaveUp => RateLimitSignal(Val(outcomes[Len(outcomes)]))
    /\ ReturnedAsItWas => ~RateLimitSignal(Val(outcomes[Len(outcomes)]))

\* the classification of the code: 403 or the marker, 429 alone is no signal
C26_WithoutTheStatus429 ==
    /\ \A i \in Retried : RateLimitSignalBut429(Val(outcomes[i]))
    /\ GaveUp => RateLimitSignalBut429(Val(outcomes[Len(outcomes)]))
    /\ ReturnedAsItWas => ~RateLimitSignalBut429(Val(outcomes[Len(outcomes)]))

\* an HTTP 429 without a marker in its text came back at the first attempt
TooManyRequestsNotRetried ==
    /\ ReturnedAsItWas
    /\ outcomes = << Some(TooManyRequests) >>
    /\ sleeps = << >>

\* an HTTP 403 and an HTTP 429 with the marker were retried with backoff
ForbiddenAndMarkedRetried ==
    /\ Len(outcomes) >= 3
    /\ outcomes[1] = Some(Forbidden) /\ outcomes[1 + 1] = Some(PrimaryRateLimit)
    /\ Len(sleeps) >= 2 /\ sleeps[1 + 1] = 2 * sleeps[1]

\* the step hands something to the fix orchestrator
HandsToTheFixers ==
    \/ given' # << >> \/ invoked' # << >> \/ results' # << >>
    \/ npc' \in { "checked", "fixed", "crashed", "stopped: manual intervention" }

\* C28: without --fix a run never mutates anything.  No step of it issues a
\* PATCH, PUT, POST or DELETE request, changes the repository or writes a
\* local file; the requests of the run are GETs, nothing is handed to the fix
\* orchestrator, and the issues of a run that found some are reported.
C28_ReadOnlyMode ==
    [][~fixFlag =>
          /\ ~Writes
          /\ ~HandsToTheFixers
          /\ (op'.name = "Run" /\ IsNil(ret'.err) /\ found' # << >>) => npc' = "reported"]_vars

\* a read-only run that read the repository and reported an issue with a fixer
C28_Witness ==
    /\ ~fixFlag
    /\ npc = "reported"
    /\ Len(ran) >= 3
    /\ reqs # << >>
    /\ \A i \in 1..Len(reqs) : reqs[i].method = "GET"
    /\ \E i \in 1..Len(found) : found[i].Fixable

(***************************************************************************)
(* The fetch of the org-scope policy, request by request.                  *)
(***************************************************************************)
\* the loop of loadOwnerConfig has run: Load has sent requests
OrgFetched == op.name = "Load" /\ reqs # << >>

\* what the i-th request of the load was answered with
Answer(i) ==
    IF op.args[1].at = i THEN "error"
    ELSE IF IsNil(live.files[OrgFile(i)]) THEN "not found"
    ELSE "found"

\* loadOwnerConfig has returned no configuration and no error
NoOrgConfigNoError ==
    \/ lpc = "loaded" /\ IsNil(Val(loaded).OwnerConfig)
    \/ DiscoveryError

\* C30: when the org-scope policy is fetched only a "not found" answer is
\* taken for "no org config".  The candidates are asked for in the order
\* .repolint.yaml, .repolint.yml; only a "not found" moves on to the next
\* candidate, and it always does; the first candidate found is the one used;
\* no org config is reported without error only when every candidate was
\* answered with "not found".
C30_OnlyNotFoundIsNoOrgConfig ==
    OrgFetched =>
        /\ Len(reqs) <= Len(ConfigFileNames)
        /\ \A i \in 1..Len(reqs) :
              reqs[i] = Request("GET", ContentsPath(<< Val(loader).owner >>, << Val(loader).owner >>,
                                                    ConfigFileNames[i]), None)
        /\ \A i \in 1..(Len(reqs) - 1) : Answer(i) = "not found"
        /\ Answer(Len(reqs)) = "not found" => Len(reqs) = Len(ConfigFileNames)
        /\ (Answer(Len(reqs)) = "found" /\ lpc = "loaded") =>
              /\ Val(loaded).OwnerSource = SourceOf(Val(loader).owner, Val(loader).owner,
                                                    ConfigFileNames[Len(reqs)])
              /\ Val(loaded).OwnerConfig
                   = Val(Val(live.files[OrgFile(Len(reqs))]).Content).config
        /\ NoOrgConfigNoError =>
              /\ Len(reqs) = Len(ConfigFileNames)
              /\ \A i \in 1..Len(reqs) : Answer(i) = "not found"

\* C30 for the loads none of whose requests fails
C30_WhenNoRequestFails ==
    (OrgFetched /\ op.args[1].at \notin 1..Len(reqs)) => C30_OnlyNotFoundIsNoOrgConfig

\* a server error for the first candidate and no second one: no org config
\* and no error of the org fetch
FailedFetchTakenForNoOrgConfig ==
    /\ OrgFetched /\ NoOrgConfigNoError
    /\ Answer(1) = "error" /\ op.args[1].err.status = 500
    /\ ~IsNil(live.files[OrgFile(1)])

\* a failed request for the first candidate, which is there, and the second used
SecondCandidateUsedAfterAFailure ==
    /\ OrgFetched /\ lpc = "loaded"
    /\ Answer(1) = "error" /\ ~IsNil(live.files[OrgFile(1)])
    /\ Val(loaded).OwnerSource = SourceOf(Val(loader).owner, Val(loader).owner, ConfigFileNames[2])

\* the second candidate used after a "not found" for the first
SecondCandidateUsedAfterNotFound ==
    /\ OrgFetched /\ lpc = "loaded"
    /\ Answer(1) = "not found" /\ Answer(2) = "found" /\ Len(reqs) = 2
    /\ Val(loaded).OwnerSource = SourceOf(Val(loader).owner, Val(loader).owner, ConfigFileNames[2])

(***************************************************************************)
(* The actions check on a workflow that the actions fixer has written.     *)
(***************************************************************************)
\* the decoded content of the remote file that a reference names
RemoteBytes(reference) ==
    LET parts == SplitN(reference, 3)
    IN Val(live.files[<< parts[1], parts[2], parts[3] >>]).Content

\* the actions fixer has written the workflow of the picked issue from its reference
WorkflowWritten ==
    /\ fpc \in { "fixed", "fixed twice", "rechecked", "rechecked by a new client" }
    /\ ~IsNil(picked)
    /\ Val(picked).Type = "actions" /\ Val(picked).Data.reference # << >>
    /\ Len(results) >= 1 /\ results[1].Fixed

\* the run of the checks after the fix
Rechecked == fpc \in { "rechecked", "rechecked by a new client" } /\ IsNil(ret.err)

\* the check reports that the workflow of the picked issue is not its reference
StillReported ==
    \E i \in 1..Len(found) :
        /\ found[i].Type = "actions"
        /\ found[i].Data.file_name = Val(picked).Data.file_name
        /\ found[i].Data.reference # << >>

\* the reference uses the default-branch variable
UsesTheDefaultBranch(content) ==
    \E i \in 1..Len(content.tokens) :
        content.tokens[i] \in { "{{.default_branch}}", "{{ .default_branch }}" }

\* C29: the actions check and the actions fixer derive the expected workflow
\* from a reference in the same way.  The file that the fixer has written is
\* one that the check accepts: it equals the reference as the check
\* interpolates it, and the next run of the checks does not report it.
C29_FixedWorkflowIsAccepted ==
    WorkflowWritten =>
        /\ yamlEqual(HydrateTemplate(Val(RemoteBytes(Val(picked).Data.reference))),
                     Val(fs[Val(picked).Data.file_name]).content)
        /\ Rechecked => ~StillReported

\* C29 for the references that do not use the default-branch variable
C29_WithoutTheDefaultBranch ==
    (/\ WorkflowWritten
     /\ ~UsesTheDefaultBranch(Val(RemoteBytes(Val(picked).Data.reference)))) =>
        C29_FixedWorkflowIsAccepted

\* a workflow written from a reference with the default-branch variable is
\* reported again by the next run
BranchTemplateReportedAgain ==
    /\ WorkflowWritten /\ Rechecked /\ clean
    /\ UsesTheDefaultBranch(Val(RemoteBytes(Val(picked).Data.reference)))
    /\ StillReported

\* a workflow written from a reference with the owner and the repository
\* variables is accepted by the next run
OwnerTemplateAccepted ==
    /\ WorkflowWritten /\ Rechecked /\ clean
    /\ RemoteBytes(Val(picked).Data.reference) = Some(OwnerWorkflow)
    /\ ~StillReported

(***************************************************************************)
(* The comparison of two rulesets (src/unnamed/part_004), on rulesets that *)
(* differ in their id, their name, their bypass actors and the include and *)
(* exclude lists of their ref-name condition.                              *)
(***************************************************************************)
MaxActors == 2

Actors ==
    { [ActorID |-> 5, ActorType |-> "RepositoryRole", BypassMode |-> "always"],
      [ActorID |-> 1, ActorType |-> "Team", BypassMode |-> "pull_request"] }

\* the lists of at most n elements of the set
ListsOf(set, n) == UNION { [1..k -> set] : k \in 0..n }

RefNames == { "refs/heads/main", "refs/heads/release" }

MatchRulesets ==
    { [MainRuleset EXCEPT
         !.ID = IF named = "main" THEN 0 ELSE 7,
         !.Name = named,
         !.Conditions = Some([RefName |-> Some([Include |-> include, Exclude |-> exclude])]),
         !.BypassActors = actors] :
      named \in { "main", "other" },
      include \in { None } \cup { Some(l) : l \in ListsOf(RefNames, 2) \ { << >> } },
      exclude \in { Some(<< >>), Some(<< "refs/heads/main" >>) },
      actors \in { None } \cup { Some(l) : l \in ListsOf(Actors, MaxActors) } }

MatchIdle ==
    /\ cmpActual = None
    /\ cmpExpected = None
    /\ cmpOut = None
    /\ cmpc = "idle"

MatchStart ==
    /\ cmpActual \in { Some(r) : r \in MatchRulesets }
    /\ cmpExpected \in { Some(r) : r \in MatchRulesets }
    /\ cmpOut = None
    /\ cmpc = "start"

\* RulesetsCheck.Run: c.rulesetsMatch(rulesetDetails, refRuleset), with the
\* verdicts of the comparisons it is made of
CompareRulesets ==
    /\ cmpc = "start"
    /\ cmpOut' = Some([rulesets |-> rulesetsMatch(Val(cmpActual), Val(cmpExpected)),
                       conditions |-> conditionsMatch(Val(cmpActual).Conditions,
                                                      Val(cmpExpected).Conditions),
                       actors |-> bypassActorsMatch(Val(cmpActual).BypassActors,
                                                    Val(cmpExpected).BypassActors),
                       turned |-> bypassActorsMatch(Val(cmpExpected).BypassActors,
                                                    Val(cmpActual).BypassActors)])
    /\ cmpc' = "compared"
    /\ UNCHANGED << cmpActual, cmpExpected >>
    /\ UNCHANGED << mergeVars, retryVars, clientVars, fixVars, loadVars, lintVars >>

(***************************************************************************)
(* Properties of the comparison.                                           *)
(***************************************************************************)
\* how often the element occurs in the list
Occurrences(list, el) == Cardinality({ i \in 1..Len(list) : list[i] = el })

\* one list is a permutation of the other
Permutation(l, m) ==
    /\ Len(l) = Len(m)
    /\ \A i \in 1..Len(l) : Occurrences(l, l[i]) = Occurrences(m, l[i])

RefNameOf(r) == Val(Val(r.Conditions).RefName)

\* the two rulesets are one but for their bypass actors, id and name
SameButActors ==
    [Val(cmpActual) EXCEPT !.BypassActors = None, !.ID = 0, !.Name = ""]
        = [Val(cmpExpected) EXCEPT !.BypassActors = None, !.ID = 0, !.Name = ""]

\* C27: bypassActorsMatch is true exactly when one list of actors is a
\* permutation of the other, so it is symmetric in its arguments; the
\* include and the exclude lists match only element by element in the same
\* order; the id and the name of the rulesets are ignored.
C27_RulesetComparison ==
    cmpc = "compared" =>
        /\ Val(cmpOut).actors <=> Permutation(Items(Val(cmpActual).BypassActors),
                                              Items(Val(cmpExpected).BypassActors))
        /\ Val(cmpOut).actors <=> Val(cmpOut).turned
        /\ Val(cmpOut).conditions <=>
              /\ Items(RefNameOf(Val(cmpActual)).Include) = Items(RefNameOf(Val(cmpExpected)).Include)
              /\ Items(RefNameOf(Val(cmpActual)).Exclude) = Items(RefNameOf(Val(cmpExpected)).Exclude)
        /\ SameButActors => (Val(cmpOut).rulesets <=> Val(cmpOut).actors)

\* no actor is twice in the list
Distinct(list) == \A i, j \in 1..Len(list) : list[i] = list[j] => i = j

\* C27 for lists that name no actor twice
C27_ListsWithoutRepetition ==
    (/\ cmpc = "compared"
     /\ Distinct(Items(Val(cmpActual).BypassActors))
     /\ Distinct(Items(Val(cmpExpected).BypassActors))) => C27_RulesetComparison

\* the parts of C27 on the conditions and on the id and name, for all lists
C27_ConditionsIdAndName ==
    cmpc = "compared" =>
        /\ Val(cmpOut).conditions <=>
              /\ Items(RefNameOf(Val(cmpActual)).Include) = Items(RefNameOf(Val(cmpExpected)).Include)
              /\ Items(RefNameOf(Val(cmpActual)).Exclude) = Items(RefNameOf(Val(cmpExpected)).Exclude)
        /\ SameButActors => (Val(cmpOut).rulesets <=> Val(cmpOut).actors)

\* the actors in another order match, the ref names in another order do not,
\* and the rulesets have different ids and names
ReorderedActorsMatch ==
    /\ cmpc = "compared"
    /\ Val(cmpOut).actors /\ Val(cmpOut).rulesets
    /\ Len(Items(Val(cmpActual).BypassActors)) = 2
    /\ Val(cmpActual).BypassActors # Val(cmpExpected).BypassActors
    /\ Val(cmpActual).Name # Val(cmpExpected).Name

ReorderedRefNamesDiffer ==
    /\ cmpc = "compared"
    /\ ~Val(cmpOut).conditions
    /\ Permutation(Items(RefNameOf(Val(cmpActual)).Include),
                   Items(RefNameOf(Val(cmpExpected)).Include))
    /\ RefNameOf(Val(cmpActual)).Exclude = RefNameOf(Val(cmpExpected)).Exclude

\* a list that names one actor twice matches a list of two actors, one way
RepeatedActorMatches ==
    /\ cmpc = "compared"
    /\ Val(cmpOut).actors /\ ~Val(cmpOut).turned

(***************************************************************************)
(* The specifications.                                                     *)
(***************************************************************************)
InitMerge ==
    /\ MergeStart
    /\ RetryIdle
    /\ ClientIdle
    /\ FixIdle
    /\ LoadIdle
    /\ LintIdle
    /\ MatchIdle

SpecMerge == InitMerge /\ [][DoMergeConfigs]_vars

InitRetry ==
    /\ owner = None /\ repo = None /\ merged = None /\ mpc = "idle"
    /\ RetryIdle
    /\ ClientIdle
    /\ FixIdle
    /\ LoadIdle
    /\ LintIdle
    /\ MatchIdle

SpecRetry == InitRetry /\ [][RetryNext]_vars

InitClient ==
    /\ owner = None /\ repo = None /\ merged = None /\ mpc = "idle"
    /\ RetryIdle
    /\ ClientStart
    /\ FixIdle
    /\ LoadIdle
    /\ LintIdle
    /\ MatchIdle

SpecClient == InitClient /\ [][ClientNext]_vars

InitFix ==
    /\ owner = None /\ repo = None /\ merged = None /\ mpc = "idle"
    /\ RetryIdle
    /\ FixStart
    /\ LoadIdle
    /\ LintIdle
    /\ MatchIdle

SpecFix == InitFix /\ [][FixNext]_vars

InitLoad ==
    /\ owner = None /\ repo = None /\ merged = None /\ mpc = "idle"
    /\ RetryIdle
    /\ LoadStart
    /\ policy = None /\ found = << >> /\ picked = None /\ results = << >>
    /\ fpc = "idle" /\ clean = TRUE /\ shared = FALSE /\ skip = {}
    /\ ran = << >> /\ given = << >> /\ invoked = << >>
    /\ LintIdle
    /\ MatchIdle

SpecLoad == InitLoad /\ [][LoadNext]_vars

InitLint ==
    /\ owner = None /\ repo = None /\ merged = None /\ mpc = "idle"
    /\ RetryIdle
    /\ LintStart
    /\ MatchIdle

SpecLint == InitLint /\ [][LintNext]_vars

InitMatch ==
    /\ owner = None /\ repo = None /\ merged = None /\ mpc = "idle"
    /\ RetryIdle
    /\ ClientIdle
    /\ FixIdle
    /\ LoadIdle
    /\ LintIdle
    /\ MatchStart

SpecMatch == InitMatch /\ [][CompareRulesets]_vars

====
